---- MODULE Spec2Model ----
(***************************************************************************)
(* s3mgr: the configuration registry (per-user S3Config records kept in a  *)
(* badger key/value store) and the transfer engine (UploadFile) of s3.go.  *)
(*                                                                         *)
(* Strings are sequences of byte values (ASCII codes), so that key         *)
(* construction, prefix iteration and byte-wise key order are computed the *)
(* way badger computes them.                                               *)
(***************************************************************************)
EXTENDS Integers, Sequences, FiniteSets, TLC

VARIABLES
    db,      \* badger store: key (byte string) -> stored S3Config
    now,     \* the wall clock (time.Now), a counter
    reqs,    \* request slot -> the handler invocation running in it
    last,    \* the invocation that returned most recently, with its response
    ops,     \* number of requests accepted so far
    up,      \* the UploadFile invocation: its position, locals and response
    calls,   \* the calls UploadFile has made to the storage backend, in order
    audit,   \* the events handed to auditService.LogEvent, in order
    auditService, \* whether the S3Service was built with an audit service (non-nil)
    objects, \* the storage backend: <<bucket, key>> -> content of the object
    rd       \* the DownloadFile, DeleteFile or ListFiles invocation, with its response

vars == <<db, now, reqs, last, ops, up, calls, audit, auditService, objects, rd>>

----------------------------------------------------------------------------
(* Bounds *)

MaxOps == 4          \* requests accepted in one behaviour
MaxInFlight == 2     \* handler invocations that may overlap
MaxRaceOps == 2      \* requests accepted in one behaviour of overlapping handlers
MaxShortOps == 3     \* requests accepted in one behaviour of SpecShort
MaxShortReads == 1   \* reads of one upload that return fewer bytes than asked for

Slots == 1..MaxInFlight

----------------------------------------------------------------------------
(* Byte strings *)

Min(a, b) == IF a < b THEN a ELSE b

Take(s, n) == SubSeq(s, 1, Min(n, Len(s)))

HasPrefix(s, p) == Len(p) <= Len(s) /\ SubSeq(s, 1, Len(p)) = p

\* bytes.Compare(s, t) < 0
LexLess(s, t) ==
    \E i \in 1..(Min(Len(s), Len(t)) + 1) :
        /\ \A j \in 1..(i - 1) : s[j] = t[j]
        /\ \/ i > Len(s) /\ i <= Len(t)
           \/ i <= Len(s) /\ i <= Len(t) /\ s[i] < t[i]

RECURSIVE SortKeys(_)
SortKeys(S) ==
    IF S = {} THEN <<>>
    ELSE LET m == CHOOSE x \in S : \A y \in S \ {x} : LexLess(x, y)
         IN  <<m>> \o SortKeys(S \ {m})

\* two decimal digits, fixed width (UnixNano and RFC3339 are fixed width)
FormatInt(n) == <<48 + ((n \div 10) % 10), 48 + (n % 10)>>

sEmpty == <<>>
sUserConfig == <<117,115,101,114,95,99,111,110,102,105,103,95>>  \* "user_config_"
sConfig == <<99,111,110,102,105,103,95>>   \* "config_"
sUnderscore == <<95>>   \* "_"
sStars == <<42,42,42,42>>   \* "****"
sMinio == <<109,105,110,105,111>>   \* "minio"
sAws == <<97,119,115>>   \* "aws"

\* user ids are usernames (auth.go: c.Set("user_id", claims.Username))
userA == <<97>>   \* "a"
userAB == <<97,95,98>>      \* "a_b"
Users == {userA, userAB}

----------------------------------------------------------------------------
(* S3Config and the key/value store *)

ZeroConfig ==
    [ID |-> sEmpty, UserID |-> sEmpty, Name |-> sEmpty, AccessKey |-> sEmpty,
     SecretKey |-> sEmpty, Region |-> sEmpty, BucketName |-> sEmpty,
     EndpointURL |-> sEmpty, UseSSL |-> FALSE, StorageType |-> sEmpty,
     IsDefault |-> FALSE, CreatedAt |-> sEmpty, UpdatedAt |-> sEmpty]

ConfigKey(userID, configID) == sUserConfig \o userID \o sUnderscore \o configID

generateConfigID(t) == sConfig \o FormatInt(t)

\* txn.Set
Put(store, k, v) == [x \in DOMAIN store \cup {k} |-> IF x = k THEN v ELSE store[x]]

\* txn.Delete (deleting an absent key succeeds)
Del(store, k) == [x \in DOMAIN store \ {k} |-> store[x]]

getUserConfigs(store, userID) ==
    LET prefix == sUserConfig \o userID \o sUnderscore
        keys == SortKeys({k \in DOMAIN store : HasPrefix(k, prefix)})
    IN  [i \in 1..Len(keys) |-> store[keys[i]]]

\* <<>> stands for the error return (badger.ErrKeyNotFound)
getConfigByID(store, userID, configID) ==
    LET key == ConfigKey(userID, configID)
    IN  IF key \in DOMAIN store THEN <<store[key]>> ELSE <<>>

saveConfig(store, config, t) ==
    LET c1 == [config EXCEPT !.UpdatedAt = FormatInt(t)]
        c2 == IF c1.CreatedAt = sEmpty THEN [c1 EXCEPT !.CreatedAt = c1.UpdatedAt] ELSE c1
    IN  Put(store, ConfigKey(c2.UserID, c2.ID), c2)

deleteConfig(store, userID, configID) == Del(store, ConfigKey(userID, configID))

getDefaultConfig(store, userID) ==
    LET configs == getUserConfigs(store, userID)
        flagged == {i \in 1..Len(configs) : configs[i].IsDefault}
    IN  IF flagged # {}
        THEN <<configs[CHOOSE i \in flagged : \A j \in flagged : i <= j]>>
        ELSE IF Len(configs) > 0 THEN <<configs[1]>> ELSE <<>>

\* a variant of safeConfig that also returns the secret
safeConfigWithSecret(config) ==
    [id |-> config.ID, name |-> config.Name, region |-> config.Region,
     bucket_name |-> config.BucketName,
     access_key |-> SubSeq(config.AccessKey, 1, Min(4, Len(config.AccessKey))) \o sStars,
     secret_key |-> config.SecretKey,
     endpoint_url |-> config.EndpointURL, use_ssl |-> config.UseSSL,
     storage_type |-> config.StorageType, is_default |-> config.IsDefault,
     created_at |-> config.CreatedAt, updated_at |-> config.UpdatedAt]

\* the map GetConfigs builds for one record
safeConfig(config) ==
    [id |-> config.ID, name |-> config.Name, region |-> config.Region,
     bucket_name |-> config.BucketName,
     access_key |-> SubSeq(config.AccessKey, 1, Min(4, Len(config.AccessKey))) \o sStars,
     endpoint_url |-> config.EndpointURL, use_ssl |-> config.UseSSL,
     storage_type |-> config.StorageType, is_default |-> config.IsDefault,
     created_at |-> config.CreatedAt, updated_at |-> config.UpdatedAt]

\* sessionErr: session.NewSession returned an error
createS3Client(config, sessionErr) ==
    IF config.StorageType = sMinio
    THEN IF sessionErr THEN "nil" ELSE "client"
    ELSE IF sessionErr THEN "panic" ELSE "client"

----------------------------------------------------------------------------
(* Request inputs *)

\* JSON bodies as ShouldBindJSON decodes them (absent members are zero values)
BodyPlain ==
    [ZeroConfig EXCEPT !.Name = <<110,49>>,   \* "n1"
                       !.AccessKey = <<65,75,73,65,49>>,    \* "AKIA1"
                       !.SecretKey = <<115,49>>,   \* "s1"
                       !.Region = <<114>>,   \* "r"
                       !.BucketName = <<98,107>>,   \* "bk"
                       !.StorageType = sAws]

\* a body that sets every member
BodyFull ==
    [ID |-> <<120>>,   \* "x"
     UserID |-> <<122>>,   \* "z"
     Name |-> <<110,50>>,   \* "n2"
     AccessKey |-> <<65,75>>,         \* "AK"
     SecretKey |-> <<115,50>>,        \* "s2"
     Region |-> <<114>>,   \* "r"
     BucketName |-> <<98,107>>,       \* "bk"
     EndpointURL |-> <<104>>,         \* "h"
     UseSSL |-> TRUE,
     StorageType |-> sMinio,
     IsDefault |-> TRUE,
     CreatedAt |-> <<116,57>>,        \* "t9"
     UpdatedAt |-> <<116,57>>]

\* <<>> is a body that does not decode; the last body has no secret_key, and the
\* member decodes to the empty string
Bodies == {<<>>, <<BodyPlain>>, <<BodyFull>>, <<[BodyFull EXCEPT !.SecretKey = sEmpty]>>}

\* outcome of the connectivity probe made by the create and update handlers
Probes == {"ok", "session_error", "list_error"}

\* values of the :id path parameter: the stored ids, each of them behind "b_",
\* and "zz"
IdParams(store) ==
    LET ids == {store[k].ID : k \in DOMAIN store}
    IN  ids \cup {<<98,95>> \o i : i \in ids} \cup {<<122,122>>}

\* the S3Config CreateMinIOUserAndBucket returns (start.sh is the Go file)
CreateMinIOUserAndBucket(username, userID, newID, t) ==
    [ID |-> newID,
     UserID |-> userID,
     \* "MinIO Default (" username ")"
     Name |-> <<77,105,110,73,79,32,68,101,102,97,117,108,116,32,40>> \o username \o <<41>>,
     AccessKey |-> <<115,51,109,103,114,95>> \o Take(userID, 8),     \* "s3mgr_"
     SecretKey |-> <<75,55,113>>,                                    \* a generated secret
     Region |-> <<117,115>>,                                         \* region "us"
     BucketName |-> <<115,51,109,103,114,45>> \o Take(userID, 8),    \* "s3mgr-"
     EndpointURL |-> <<108,58,57>>,                                  \* endpoint "l:9"
     UseSSL |-> FALSE,
     StorageType |-> sMinio,
     IsDefault |-> TRUE,
     CreatedAt |-> FormatInt(t),
     UpdatedAt |-> FormatInt(t)]

----------------------------------------------------------------------------
(* Handler invocations *)

Idle ==
    [kind |-> "none", pc |-> "idle", user |-> sEmpty, isAdmin |-> FALSE,
     id |-> sEmpty, body |-> <<>>, existing |-> <<>>, updateData |-> <<>>,
     config |-> <<>>, configs |-> <<>>,
     target |-> sEmpty, sd |-> <<>>, idx |-> 0, format |-> "",
     status |-> 0, msg |-> "", resp |-> <<>>]

Free(r) == reqs[r].pc = "idle"

\* a new request takes the lowest free slot
Accept(r) == /\ ops < MaxOps
             /\ Free(r)
             /\ \A q \in Slots : q < r => ~Free(q)

\* requests are served one at a time
AcceptSeq(r) == /\ ops < MaxOps
                /\ r = 1
                /\ \A q \in Slots : Free(q)

New(kind, user, id, body) ==
    [Idle EXCEPT !.kind = kind, !.user = user, !.id = id, !.body = body]

Reply(q, status, msg, resp) ==
    [q EXCEPT !.pc = "done", !.status = status, !.msg = msg, !.resp = resp]

\* slot r continues as q; a handler that has returned leaves its slot, and
\* last keeps its response until the next request is accepted
Serve(r, q) ==
    IF q.pc = "done"
    THEN /\ reqs' = [reqs EXCEPT ![r] = Idle]
         /\ last' = q
    ELSE /\ reqs' = [reqs EXCEPT ![r] = q]
         /\ last' = IF reqs[r].pc = "idle" THEN Idle ELSE last

\* the same for a handler that has no audit logging and makes no backend call
Continue(r, q) ==
    /\ Serve(r, q)
    /\ UNCHANGED <<up, calls, audit, objects, rd, auditService>>

\* a variant of the probe in which the request goes out unsigned, so that empty
\* credentials pass when the backend answers
ProbeFailureUnsigned(config, probe) ==
    LET client == createS3Client(config, probe = "session_error")
    IN  IF client = "panic" THEN "panic"
        ELSE IF client = "nil" THEN "Failed to create storage client"
        ELSE IF probe = "list_error" THEN "Failed to connect to storage"
        ELSE ""

\* the part of a handler that validates a configuration against the backend:
\* createS3Client and client.ListObjects; "" means the probe passed.
\* Static credentials with an empty access key or secret are refused by the SDK
\* when the request is signed, so ListObjects fails whatever the backend would say.
ProbeFailure(config, probe) ==
    LET client == createS3Client(config, probe = "session_error")
    IN  IF client = "panic" THEN "panic"
        ELSE IF client = "nil" THEN "Failed to create storage client"
        ELSE IF probe = "list_error" \/ config.AccessKey = sEmpty \/ config.SecretKey = sEmpty
        THEN "Failed to connect to storage"
        ELSE ""

\* the handler returns on a failed probe and goes on to pc with config otherwise
Probed(q, config, probe, pc) ==
    LET failure == ProbeFailure(config, probe)
    IN  IF failure = "panic" THEN Reply(q, 500, "panic", <<>>)
        ELSE IF failure # "" THEN Reply(q, 400, failure, <<>>)
        ELSE [q EXCEPT !.pc = pc, !.config = <<config>>]

\* CreateConfig up to its first registry access
CreateConfigBegin(r, user, body) ==
    LET q == New("create", user, sEmpty, body) IN
    IF body = <<>>
    THEN /\ Continue(r, Reply(q, 400, "Invalid configuration data", <<>>))
         /\ UNCHANGED <<db, now>>
    ELSE LET config == [body[1] EXCEPT !.ID = generateConfigID(now), !.UserID = user]
         IN  \E probe \in Probes :
                 LET q2 == Probed(q, config, probe, "create_read")
                 IN  /\ Continue(r, q2)
                     /\ now' = IF q2.pc = "create_read" THEN now + 1 ELSE now
                     /\ UNCHANGED db

\* existingConfigs, _ := s.getUserConfigs(userID)
CreateConfigRead(r) ==
    /\ reqs[r].pc = "create_read"
    /\ LET existingConfigs == getUserConfigs(db, reqs[r].user)
           config == reqs[r].config[1]
       IN  Continue(r, [reqs[r] EXCEPT !.pc = "create_save",
                                       !.config = IF Len(existingConfigs) = 0
                                                  THEN <<[config EXCEPT !.IsDefault = TRUE]>>
                                                  ELSE <<config>>])
    /\ UNCHANGED <<db, now, ops>>

CreateConfigSave(r) ==
    /\ reqs[r].pc = "create_save"
    /\ db' = saveConfig(db, reqs[r].config[1], now)
    /\ Continue(r, Reply(reqs[r], 201, "Configuration created successfully",
                         <<reqs[r].config[1].ID>>))
    /\ UNCHANGED <<now, ops>>

\* a variant of PreserveFields that lets the request body decide is_default
PreserveFieldsFromBody(updateData, existingConfig) ==
    [updateData EXCEPT !.ID = existingConfig.ID,
                       !.UserID = existingConfig.UserID,
                       !.CreatedAt = existingConfig.CreatedAt]

\* "Preserve ID, UserID, and timestamps": the four assignments after the bind
PreserveFields(updateData, existingConfig) ==
    [updateData EXCEPT !.ID = existingConfig.ID,
                       !.UserID = existingConfig.UserID,
                       !.CreatedAt = existingConfig.CreatedAt,
                       !.IsDefault = existingConfig.IsDefault]

\* UpdateConfig up to the saveConfig call
UpdateConfigBegin(r, user, id) ==
    LET existingConfig == getConfigByID(db, user, id)
    IN  /\ UNCHANGED <<db, now>>
        /\ IF existingConfig = <<>>
           THEN Continue(r, Reply(New("update", user, id, <<>>), 404,
                                  "Configuration not found", <<>>))
           ELSE \E body \in Bodies :
                LET q == [New("update", user, id, body) EXCEPT !.existing = existingConfig] IN
                IF body = <<>>
                THEN Continue(r, Reply(q, 400, "Invalid configuration data", <<>>))
                ELSE LET updateData == PreserveFields(body[1], existingConfig[1])
                     IN  \E probe \in Probes :
                             Continue(r, Probed([q EXCEPT !.updateData = <<updateData>>],
                                                updateData, probe, "update_save"))

UpdateConfigSave(r) ==
    /\ reqs[r].pc = "update_save"
    /\ db' = saveConfig(db, reqs[r].config[1], now)
    /\ Continue(r, [reqs[r] EXCEPT !.pc = "update_reread"])
    /\ UNCHANGED <<now, ops>>

\* config, err := s.getConfigByID(userID, configID)
UpdateConfigReread(r) ==
    /\ reqs[r].pc = "update_reread"
    /\ LET config == getConfigByID(db, reqs[r].user, reqs[r].id)
       IN  Continue(r, IF config = <<>>
                       THEN Reply(reqs[r], 404, "Configuration not found", <<>>)
                       ELSE [reqs[r] EXCEPT !.pc = "update_list", !.config = config])
    /\ UNCHANGED <<db, now, ops>>

\* configs, err := s.getUserConfigs(userID); the last-configuration check
UpdateConfigList(r) ==
    /\ reqs[r].pc = "update_list"
    /\ LET configs == getUserConfigs(db, reqs[r].user)
       IN  Continue(r, IF Len(configs) <= 1
                       THEN Reply(reqs[r], 400, "Cannot delete the last configuration", <<>>)
                       ELSE [reqs[r] EXCEPT !.pc = "update_delete", !.configs = configs])
    /\ UNCHANGED <<db, now, ops>>

\* the indexes of the records of configs whose ID differs from configID
Others(configs, configID) == {i \in 1..Len(configs) : configs[i].ID # configID}

First(S) == CHOOSE i \in S : \A j \in S : i <= j

\* the handler's steps after deleteConfig: setDefaultConfig on the first other
\* record when the deleted one was the default, then the 200 response
AfterDelete(q, wasDefault) ==
    LET others == Others(q.configs, q.id)
    IN  IF wasDefault /\ Len(q.configs) > 1 /\ others # {}
        THEN [q EXCEPT !.pc = "sd_read", !.target = q.configs[First(others)].ID]
        ELSE Reply(q, 200, "Configuration deleted successfully", <<>>)

\* s.deleteConfig(userID, configID) at the end of UpdateConfig
UpdateConfigDelete(r) ==
    /\ reqs[r].pc = "update_delete"
    /\ db' = deleteConfig(db, reqs[r].user, reqs[r].id)
    /\ Continue(r, AfterDelete(reqs[r], reqs[r].config[1].IsDefault))
    /\ UNCHANGED <<now, ops>>

\* DeleteConfig up to the deleteConfig call
DeleteConfigBegin(r, user, id) ==
    LET q == New("delete", user, id, <<>>)
        configs == getUserConfigs(db, user)
    IN  /\ UNCHANGED <<db, now>>
        /\ Continue(r, IF Len(configs) <= 1
                       THEN Reply([q EXCEPT !.configs = configs], 400,
                                  "Cannot delete the last configuration", <<>>)
                       ELSE [q EXCEPT !.pc = "delete_delete", !.configs = configs])

DeleteConfigDelete(r) ==
    /\ reqs[r].pc = "delete_delete"
    /\ db' = deleteConfig(db, reqs[r].user, reqs[r].id)
    /\ LET configs == reqs[r].configs
           deletedWasDefault == \E i \in 1..Len(configs) :
                                    configs[i].ID = reqs[r].id /\ configs[i].IsDefault
       IN  Continue(r, AfterDelete(reqs[r], deletedWasDefault))
    /\ UNCHANGED <<now, ops>>

\* SetDefaultConfig: the handler calls setDefaultConfig at once
SetDefaultConfigBegin(r, user, id) ==
    /\ Continue(r, [New("setdefault", user, id, <<>>) EXCEPT !.pc = "sd_read", !.target = id])
    /\ UNCHANGED <<db, now>>

\* setDefaultConfig: configs, err := s.getUserConfigs(userID)
setDefaultConfigRead(r) ==
    /\ reqs[r].pc = "sd_read"
    /\ Continue(r, [reqs[r] EXCEPT !.pc = "sd_loop",
                                   !.sd = getUserConfigs(db, reqs[r].user),
                                   !.idx = 1])
    /\ UNCHANGED <<db, now, ops>>

\* the flagged records of the snapshot the first loop has not reached yet
Flagged(q) == {i \in q.idx..Len(q.sd) : q.sd[i].IsDefault}

\* setDefaultConfig, first loop: one saveConfig per flagged record
setDefaultConfigClear(r) ==
    /\ reqs[r].pc = "sd_loop"
    /\ Flagged(reqs[r]) # {}
    /\ LET i == First(Flagged(reqs[r]))
       IN  /\ db' = saveConfig(db, [reqs[r].sd[i] EXCEPT !.IsDefault = FALSE], now)
           /\ Continue(r, [reqs[r] EXCEPT !.idx = i + 1])
    /\ UNCHANGED <<now, ops>>

\* what the handler answers once setDefaultConfig has returned
AfterSetDefault(q) ==
    IF q.kind = "setdefault"
    THEN Reply(q, 200, "Default configuration set", <<>>)
    ELSE Reply(q, 200, "Configuration deleted successfully", <<>>)

\* setDefaultConfig, second loop: flag the first record whose ID is configID
setDefaultConfigSet(r) ==
    /\ reqs[r].pc = "sd_loop"
    /\ Flagged(reqs[r]) = {}
    /\ LET sd == reqs[r].sd
           hits == {i \in 1..Len(sd) : sd[i].ID = reqs[r].target}
       IN  db' = IF hits # {}
                 THEN saveConfig(db, [sd[First(hits)] EXCEPT !.IsDefault = TRUE], now)
                 ELSE db
    /\ Continue(r, AfterSetDefault(reqs[r]))
    /\ UNCHANGED <<now, ops>>

\* GetConfigs: one read transaction, then the redacted list
GetConfigsBegin(r, user) ==
    LET configs == getUserConfigs(db, user)
    IN  /\ Continue(r, Reply(New("list", user, sEmpty, <<>>), 200, "",
                             [i \in 1..Len(configs) |-> safeConfig(configs[i])]))
        /\ UNCHANGED <<db, now>>

\* GetConfigByID: lookup under the caller's key, then the owner/admin check
GetConfigByIDBegin(r, user, isAdmin, id) ==
    LET q == [New("get", user, id, <<>>) EXCEPT !.isAdmin = isAdmin]
        config == getConfigByID(db, user, id)
    IN  /\ Continue(r, IF config = <<>> THEN Reply(q, 404, "Configuration not found", <<>>)
                       ELSE IF config[1].UserID # user /\ ~isAdmin
                       THEN Reply(q, 403, "Forbidden", <<>>)
                       ELSE Reply(q, 200, "", config))
        /\ UNCHANGED <<db, now>>

\* AutoConfigureMinIO: provisioning makes no registry access, saveConfig is the only one
AutoConfigureMinIOBegin(r, user, username) ==
    LET q == New("auto", user, sEmpty, <<>>) IN
    IF user = sEmpty
    THEN /\ Continue(r, Reply(q, 401, "User not authenticated", <<>>))
         /\ UNCHANGED <<db, now>>
    ELSE IF username = sEmpty
    THEN /\ Continue(r, Reply(q, 400, "Username is required", <<>>))
         /\ UNCHANGED <<db, now>>
    ELSE \/ /\ Continue(r, Reply(q, 500, "Failed to create MinIO configuration", <<>>))
            /\ UNCHANGED <<db, now>>
         \* fmt.Sprintf("%x", rand.Int63()): "3e", "d1"
         \/ \E newID \in {<<51,101>>, <<100,49>>} :
              LET config == CreateMinIOUserAndBucket(username, user, newID, now)
              IN  /\ db' = saveConfig(db, config, now)
                  /\ Continue(r, Reply(q, 200, "MinIO configuration created successfully",
                                       <<config>>))
                  /\ UNCHANGED now

\* ---------------------------------------------------------------------------
\* Bulk import and export (admin routes)

\* the event the logAudit closure of an admin handler records, if the service
\* has an audit service
logAdmin(log, action, success, stage, format, count) ==
    IF auditService
    THEN Append(log, [action |-> action, success |-> success, stage |-> stage,
                      format |-> format, count |-> count])
    ELSE log

\* ImportConfigsHandler up to its first write: the submitted file and its decoding;
\* decoded is <<"error">>, or <<"ok", configs>> with the records of the rows
ImportConfigsHandlerBegin(r, hasFile, format, decoded) ==
    LET q == [New("import", sEmpty, sEmpty, <<>>) EXCEPT !.isAdmin = TRUE] IN
    /\ IF ~hasFile
       THEN /\ audit' = logAdmin(audit, "import_configs", FALSE, "parse_form_file", "", <<>>)
            /\ Serve(r, Reply(q, 400, "File required", <<>>))
       ELSE IF decoded[1] = "error"
       THEN /\ audit' = logAdmin(audit, "import_configs", FALSE,
                                 IF format = "json" THEN "decode_json" ELSE "decode_csv",
                                 "", <<>>)
            /\ Serve(r, Reply(q, 400, IF format = "json" THEN "Invalid JSON" ELSE "Invalid CSV",
                              <<>>))
       ELSE /\ audit' = audit
            /\ Serve(r, [q EXCEPT !.pc = IF decoded[2] = <<>> THEN "import_returned"
                                         ELSE "import_save",
                                  !.configs = decoded[2], !.idx = 1, !.format = format])
    /\ UNCHANGED <<db, now, up, calls, objects, rd, auditService>>

\* one turn of the save loop: txn.Set("config:" + cfg.ID, cfgData), its error dropped
ImportConfigsHandlerSave(r) ==
    /\ reqs[r].pc = "import_save"
    /\ LET cfg == reqs[r].configs[reqs[r].idx]
       IN  db' = Put(db, <<99,111,110,102,105,103,58>> \o cfg.ID, cfg)   \* "config:"
    /\ Serve(r, [reqs[r] EXCEPT !.idx = @ + 1,
                                !.pc = IF reqs[r].idx = Len(reqs[r].configs)
                                       THEN "import_returned" ELSE "import_save"])
    /\ UNCHANGED <<now, ops, up, calls, audit, objects, rd, auditService>>

\* after the save loop: the audit event and the response
ImportConfigsHandlerReturned(r) ==
    /\ reqs[r].pc = "import_returned"
    /\ audit' = logAdmin(audit, "import_configs", TRUE, "", reqs[r].format,
                         <<Len(reqs[r].configs)>>)
    /\ Serve(r, Reply(reqs[r], 200, "Imported configs", <<Len(reqs[r].configs)>>))
    /\ UNCHANGED <<db, now, ops, up, calls, objects, rd, auditService>>

\* ExportConfigsHandler up to the response: one read transaction over the keys
\* that start with "config:" (the view of an open store does not fail)
ExportConfigsHandlerBegin(r, format) ==
    LET keys == SortKeys({k \in DOMAIN db : HasPrefix(k, <<99,111,110,102,105,103,58>>)})
        q == [New("export", sEmpty, sEmpty, <<>>) EXCEPT !.isAdmin = TRUE]
    IN  /\ Serve(r, [q EXCEPT !.pc = "export_returned", !.format = format,
                              !.configs = [i \in 1..Len(keys) |-> db[keys[i]]]])
        /\ UNCHANGED <<db, now, up, calls, audit, objects, rd, auditService>>

\* the records written as JSON or CSV with every field in full, and the audit event
ExportConfigsHandlerReturned(r) ==
    /\ reqs[r].pc = "export_returned"
    /\ audit' = logAdmin(audit, "export_configs", TRUE, "", reqs[r].format,
                         <<Len(reqs[r].configs)>>)
    /\ Serve(r, Reply(reqs[r], 200, "", reqs[r].configs))
    /\ UNCHANGED <<db, now, ops, up, calls, objects, rd, auditService>>

\* one handler is entered; an input is drawn where the handler first reads it.
\* An imported file does not decode, holds no record, or holds one record of
\* owner "a" with id "x" that is flagged as default
Begin(r) ==
    /\ ops' = ops + 1
    /\ \/ \E user \in Users :
             \/ \E body \in Bodies : CreateConfigBegin(r, user, body)
             \/ \E id \in IdParams(db) : UpdateConfigBegin(r, user, id)
             \/ \E id \in IdParams(db) : DeleteConfigBegin(r, user, id)
             \/ \E id \in IdParams(db) : SetDefaultConfigBegin(r, user, id)
             \/ GetConfigsBegin(r, user)
             \/ \E isAdmin \in BOOLEAN, id \in IdParams(db) :
                   GetConfigByIDBegin(r, user, isAdmin, id)
             \/ \E username \in {sEmpty, <<117>>} : AutoConfigureMinIOBegin(r, user, username)
       \/ \E hasFile \in BOOLEAN, format \in {"csv", "json"} :
             \E decoded \in {<<"error">>, <<"ok", <<>>>>,
                             <<"ok", <<[BodyPlain EXCEPT !.ID = <<120>>, !.UserID = userA,
                                                         !.IsDefault = TRUE]>>>>} :
                 ImportConfigsHandlerBegin(r, hasFile, format, decoded)
       \/ \E format \in {"csv", "json"} : ExportConfigsHandlerBegin(r, format)

Request == \E r \in Slots : Accept(r) /\ Begin(r)
RequestSeq == \E r \in Slots : AcceptSeq(r) /\ Begin(r)

CreateConfigReadStep == \E r \in Slots : CreateConfigRead(r)
CreateConfigSaveStep == \E r \in Slots : CreateConfigSave(r)
DeleteConfigDeleteStep == \E r \in Slots : DeleteConfigDelete(r)
setDefaultConfigReadStep == \E r \in Slots : setDefaultConfigRead(r)
setDefaultConfigClearStep == \E r \in Slots : setDefaultConfigClear(r)
setDefaultConfigSetStep == \E r \in Slots : setDefaultConfigSet(r)

Steps ==
    \/ CreateConfigReadStep
    \/ CreateConfigSaveStep
    \/ \E r \in Slots : UpdateConfigSave(r)
    \/ \E r \in Slots : UpdateConfigReread(r)
    \/ \E r \in Slots : UpdateConfigList(r)
    \/ \E r \in Slots : UpdateConfigDelete(r)
    \/ DeleteConfigDeleteStep
    \/ setDefaultConfigReadStep
    \/ setDefaultConfigClearStep
    \/ setDefaultConfigSetStep
    \/ \E r \in Slots : ImportConfigsHandlerSave(r)
    \/ \E r \in Slots : ImportConfigsHandlerReturned(r)
    \/ \E r \in Slots : ExportConfigsHandlerReturned(r)

----------------------------------------------------------------------------
(* Transfer engine: UploadFile *)

multipartThreshold == 5 * 1024 * 1024

partSize == 5 * 1024 * 1024

\* header.Size of the submitted file; the stream holds that many bytes
Sizes ==
    {0, 1, multipartThreshold - 1, multipartThreshold, multipartThreshold + 1,
     2 * partSize, 2 * partSize + 1}

sUsers == <<117,115,101,114,115,47>>     \* "users/"
sSlash == <<47>>
Filenames == {<<102>>}                   \* "f"

\* c.Query("config_id"): absent, or any id a caller may send
ConfigIdParams(store) == {sEmpty} \cup IdParams(store)

NoUpload ==
    [pc |-> "idle", user |-> sEmpty, config |-> <<>>, filename |-> sEmpty, key |-> sEmpty,
     size |-> 0, rem |-> 0, short |-> 0, uploadId |-> "", partNumber |-> 0,
     n |-> 0, readErr |-> "nil", completedParts |-> <<>>, err |-> "nil",
     status |-> 0, msg |-> "", respKey |-> sEmpty]

\* c.JSON(status, ...) followed by return
Respond(u, status, msg, respKey) ==
    [u EXCEPT !.pc = "done", !.status = status, !.msg = msg, !.respKey = respKey]

\* one call received by the backend
Call(op, u, partNumber, size, parts, ok) ==
    [op |-> op, Bucket |-> u.config[1].BucketName, Key |-> u.key, UploadId |-> u.uploadId,
     PartNumber |-> partNumber, Size |-> size, Parts |-> parts, ok |-> ok]

\* n bytes of the submitted stream, starting at offset from
Bytes(from, n) == IF n = 0 THEN <<>> ELSE <<[from |-> from, len |-> n]>>

\* the bytes of a followed by the bytes of b
Concat(a, b) ==
    IF a = <<>> THEN b
    ELSE IF b = <<>> THEN a
    ELSE LET l == a[Len(a)]
             f == b[1]
         IN  IF l.from >= 0 /\ l.from + l.len = f.from
             THEN SubSeq(a, 1, Len(a) - 1) \o <<[from |-> l.from, len |-> l.len + f.len]>>
                  \o SubSeq(b, 2, Len(b))
             ELSE a \o b

\* the call with the body it carries
WithBody(call, body) == [op |-> call.op, Bucket |-> call.Bucket, Key |-> call.Key,
                         UploadId |-> call.UploadId, PartNumber |-> call.PartNumber,
                         Size |-> call.Size, Parts |-> call.Parts, ok |-> call.ok,
                         Body |-> body]

\* the backend keeps content under <<bucket, key>>
Store(store, bucket, key, content) == Put(store, <<bucket, key>>, content)

\* the body the backend holds for part partNumber of session uploadId: the one
\* of the last UploadPart call it accepted for that part
PartBody(log, uploadId, partNumber) ==
    LET hits == {i \in 1..Len(log) : /\ log[i].op = "UploadPart" /\ log[i].ok
                                      /\ log[i].UploadId = uploadId
                                      /\ log[i].PartNumber = <<partNumber>>}
    IN  IF hits = {} THEN <<>>
        ELSE log[CHOOSE i \in hits : \A j \in hits : j <= i].Body

\* a variant of the assembly that puts the newest part first
RECURSIVE AssembledNewestFirst(_, _, _)
AssembledNewestFirst(log, uploadId, parts) ==
    IF parts = <<>> THEN <<>>
    ELSE Concat(PartBody(log, uploadId, parts[Len(parts)].PartNumber),
                AssembledNewestFirst(log, uploadId, SubSeq(parts, 1, Len(parts) - 1)))

\* the object a completed session becomes: its parts in the order of the list
RECURSIVE Assembled(_, _, _)
Assembled(log, uploadId, parts) ==
    IF parts = <<>> THEN <<>>
    ELSE Concat(Assembled(log, uploadId, SubSeq(parts, 1, Len(parts) - 1)),
                PartBody(log, uploadId, parts[Len(parts)].PartNumber))

\* logAudit(success, err, details): the event LogEvent records, if the service
\* has an audit service
logAudit(log, success, stage, u, partNumber, parts) ==
    IF auditService
    THEN Append(log, [action |-> "upload_file", success |-> success, stage |-> stage,
                      filename |-> u.filename, size |-> u.size,
                      part_number |-> partNumber, parts |-> parts])
    ELSE log

\* a variant of the size test that sends a file of exactly the threshold to multipart
UseMultipartFromThreshold(fileSize) == fileSize >= multipartThreshold

\* if fileSize > multipartThreshold
UseMultipart(fileSize) == fileSize > multipartThreshold

\* UploadFile up to the size test: configuration, client, submitted file, key
UploadFileBegin(user, configID, sessionErr, hasFile, filename, fileSize) ==
    LET config == IF configID # sEmpty THEN getConfigByID(db, user, configID)
                  ELSE getDefaultConfig(db, user)
        u == [NoUpload EXCEPT !.user = user, !.config = config]
    IN  /\ up.pc = "idle"
        /\ up' = IF config = <<>>
                 THEN Respond(u, 404, "Configuration not found", sEmpty)
                 ELSE IF createS3Client(config[1], sessionErr) = "nil"
                 THEN Respond(u, 500, "Failed to create storage client", sEmpty)
                 ELSE IF createS3Client(config[1], sessionErr) = "panic"
                 THEN Respond(u, 500, "", sEmpty)
                 ELSE IF ~hasFile
                 THEN Respond(u, 400, "File required", sEmpty)
                 ELSE [u EXCEPT !.filename = filename,
                                !.key = sUsers \o user \o sSlash \o filename,
                                !.size = fileSize, !.rem = fileSize,
                                !.pc = IF UseMultipart(fileSize) THEN "initiate" ELSE "put"]
        /\ UNCHANGED <<db, now, reqs, last, ops, calls, audit, objects, rd, auditService>>

\* client.CreateMultipartUpload: the backend opens a session, or refuses; after a
\* session was opened the handler sets up the buffer and partNumber := 1
CreateMultipartUpload(ok, uploadId) ==
    /\ up.pc = "initiate"
    /\ calls' = Append(calls, Call("CreateMultipartUpload", up, <<>>, <<>>, <<>>, ok))
    /\ up' = IF ok THEN [up EXCEPT !.pc = "read", !.uploadId = uploadId, !.partNumber = 1]
             ELSE [up EXCEPT !.pc = "initiate_failed", !.err = "error"]
    /\ UNCHANGED <<db, now, reqs, last, ops, audit, objects, rd, auditService>>

\* after CreateMultipartUpload has returned an error: the audit event and the response
CreateMultipartUploadFailed ==
    /\ up.pc = "initiate_failed"
    /\ audit' = logAudit(audit, FALSE, "initiate_multipart", up, <<>>, <<>>)
    /\ up' = Respond(up, 500, "Failed to initiate multipart upload: ", sEmpty)
    /\ UNCHANGED <<db, now, reqs, last, ops, calls, objects, rd, auditService>>

\* what file.Read(buffer) may return with rem bytes left in the stream: <<n, readErr>>
ReadOutcomes(rem, short) ==
    IF rem = 0 THEN {<<0, "EOF">>, <<0, "error">>}
    ELSE LET full == Min(partSize, rem)
         IN  {<<full, "nil">>, <<0, "error">>}
             \cup (IF full = rem THEN {<<full, "EOF">>} ELSE {})
             \cup (IF short < MaxShortReads /\ full > 1 THEN {<<full - 1, "nil">>} ELSE {})

\* n, readErr := file.Read(buffer) and the two tests on n == 0
ReadPart(n, readErr) ==
    /\ up.pc = "read"
    /\ IF n = 0 /\ readErr = "EOF"
       THEN /\ up' = [up EXCEPT !.pc = "complete"]
            /\ UNCHANGED audit
       ELSE IF n = 0 /\ readErr # "nil"
       THEN /\ audit' = logAudit(audit, FALSE, "read_part", up, <<up.partNumber>>, <<>>)
            /\ up' = Respond(up, 500, "Failed to read file part: ", sEmpty)
       ELSE /\ up' = [up EXCEPT !.pc = "upload_part", !.n = n, !.readErr = readErr,
                                !.rem = up.rem - n,
                                !.short = IF n < Min(partSize, up.rem)
                                          THEN up.short + 1 ELSE up.short]
            /\ UNCHANGED audit
    /\ UNCHANGED <<db, now, reqs, last, ops, calls, objects, rd, auditService>>

\* a variant of the loop tail that does not advance the part number
PartUploadedSameNumber(u) ==
    [u EXCEPT
       !.completedParts = Append(@, [ETag |-> <<u.uploadId, u.partNumber>>,
                                     PartNumber |-> u.partNumber]),
       !.pc = IF u.readErr = "EOF" THEN "complete" ELSE "read"]

\* the loop tail after an accepted part: completedParts = append(...), partNumber++,
\* and the test of readErr == io.EOF
PartUploaded(u) ==
    [u EXCEPT
       !.completedParts = Append(@, [ETag |-> <<u.uploadId, u.partNumber>>,
                                     PartNumber |-> u.partNumber]),
       !.partNumber = @ + 1,
       !.pc = IF u.readErr = "EOF" THEN "complete" ELSE "read"]

\* client.UploadPart for the chunk just read: the backend stores the part and the
\* handler runs the loop tail, or the backend refuses
UploadPart(ok) ==
    /\ up.pc = "upload_part"
    /\ calls' = Append(calls, WithBody(Call("UploadPart", up, <<up.partNumber>>, <<up.n>>,
                                             <<>>, ok),
                                        Bytes(up.size - up.rem - up.n, up.n)))
    /\ up' = IF ok THEN PartUploaded(up)
             ELSE [up EXCEPT !.pc = "part_failed", !.err = "error"]
    /\ UNCHANGED <<db, now, reqs, last, ops, audit, objects, rd, auditService>>

\* the failure branch of UploadPart: client.AbortMultipartUpload, its result dropped
AbortMultipartUpload(abortOk) ==
    /\ up.pc = "part_failed"
    /\ calls' = Append(calls, Call("AbortMultipartUpload", up, <<>>, <<>>, <<>>, abortOk))
    /\ up' = [up EXCEPT !.pc = "aborted"]
    /\ UNCHANGED <<db, now, reqs, last, ops, audit, objects, rd, auditService>>

\* after the abort has returned: the audit event and the response
UploadPartFailed ==
    /\ up.pc = "aborted"
    /\ audit' = logAudit(audit, FALSE, "upload_part", up, <<up.partNumber>>, <<>>)
    /\ up' = Respond(up, 500, "Failed to upload part: ", sEmpty)
    /\ UNCHANGED <<db, now, reqs, last, ops, calls, objects, rd, auditService>>

\* client.CompleteMultipartUpload: the backend assembles the object, or refuses
CompleteMultipartUpload(ok) ==
    /\ up.pc = "complete"
    /\ calls' = Append(calls, Call("CompleteMultipartUpload", up, <<>>, <<>>,
                                   up.completedParts, ok))
    /\ objects' = IF ok THEN Store(objects, up.config[1].BucketName, up.key,
                                   Assembled(calls, up.uploadId, up.completedParts))
                 ELSE objects
    /\ up' = [up EXCEPT !.pc = "complete_returned", !.err = IF ok THEN "nil" ELSE "error"]
    /\ UNCHANGED <<db, now, reqs, last, ops, audit, rd, auditService>>

\* after CompleteMultipartUpload has returned: the audit event and the response
CompleteMultipartUploadReturned ==
    /\ up.pc = "complete_returned"
    /\ IF up.err = "nil"
       THEN /\ audit' = logAudit(audit, TRUE, "multipart_upload", up, <<>>,
                                 <<Len(up.completedParts)>>)
            /\ up' = Respond(up, 200, "File uploaded successfully (multipart)", up.filename)
       ELSE /\ audit' = logAudit(audit, FALSE, "complete_multipart", up, <<>>, <<>>)
            /\ up' = Respond(up, 500, "Failed to complete multipart upload: ", sEmpty)
    /\ UNCHANGED <<db, now, reqs, last, ops, calls, objects, rd, auditService>>

\* small file: client.PutObject with the whole stream as the body
PutObject(ok) ==
    /\ up.pc = "put"
    /\ calls' = Append(calls, WithBody(Call("PutObject", up, <<>>, <<up.size>>, <<>>, ok),
                                        Bytes(0, up.size)))
    /\ objects' = IF ok THEN Store(objects, up.config[1].BucketName, up.key, Bytes(0, up.size))
                 ELSE objects
    /\ up' = [up EXCEPT !.pc = "put_returned", !.err = IF ok THEN "nil" ELSE "error"]
    /\ UNCHANGED <<db, now, reqs, last, ops, audit, rd, auditService>>

\* after PutObject has returned: the audit event and the response
PutObjectReturned ==
    /\ up.pc = "put_returned"
    /\ audit' = logAudit(audit, up.err = "nil", "put_object", up, <<>>, <<>>)
    /\ up' = IF up.err = "nil" THEN Respond(up, 200, "File uploaded successfully", up.filename)
             ELSE Respond(up, 500, "Failed to upload file: ", sEmpty)
    /\ UNCHANGED <<db, now, reqs, last, ops, calls, objects, rd, auditService>>

\* ---------------------------------------------------------------------------
\* DownloadFile

userSlash == <<97, 47, 98>>   \* "a/b": a username is any non-empty string
FileUsers == Users \cup {userSlash}
sG == <<103>>   \* "g"
Keys == Filenames \cup {sG}              \* c.Param("key")


NoRead ==
    [kind |-> "", pc |-> "idle", user |-> sEmpty, config |-> <<>>, key |-> sEmpty,
     fullKey |-> sEmpty, prefix |-> sEmpty, page |-> <<>>, pageSize |-> <<>>,
     status |-> 0, msg |-> "", disposition |-> sEmpty, body |-> <<>>,
     files |-> <<>>, total |-> 0, config_id |-> sEmpty,
     queryPage |-> sEmpty, queryPageSize |-> sEmpty, err |-> "",
     hasContentType |-> TRUE, hasContentLength |-> TRUE,
     object |-> <<>>, copied |-> TRUE, upload |-> FALSE]

\* the event DownloadFile's logAudit records
logDownload(log, success, stage, key, fullKey, size) ==
    IF auditService
    THEN Append(log, [action |-> "download_file", success |-> success, stage |-> stage,
                      filename |-> key, full_key |-> fullKey, size |-> size])
    ELSE log

\* the number of bytes of a content
RECURSIVE ContentLen(_)
ContentLen(content) ==
    IF content = <<>> THEN 0 ELSE content[1].len + ContentLen(Tail(content))

\* userPrefix + key
FullKey(user, key) == sUsers \o user \o sSlash \o key

\* the configuration a file handler works with: the one named by config_id, or
\* the default one of the caller; <<>> when there is none
ResolveConfig(user, configID) ==
    IF configID # sEmpty THEN getConfigByID(db, user, configID)
    ELSE getDefaultConfig(db, user)

\* DownloadFile up to the backend call: configuration, client, the namespaced key;
\* upload keeps whether the UploadFile invocation had returned when the request arrived
DownloadFile(user, configID, key, sessionErr) ==
    LET config == ResolveConfig(user, configID)
        r == [NoRead EXCEPT !.kind = "download", !.pc = "done", !.user = user,
                            !.config = config, !.key = key, !.upload = (up.pc = "done")]
    IN  /\ rd.pc = "idle"
        /\ rd' = IF config = <<>>
                 THEN [r EXCEPT !.status = 404, !.msg = "Configuration not found"]
                 ELSE IF createS3Client(config[1], sessionErr) = "nil"
                 THEN [r EXCEPT !.status = 500, !.msg = "Failed to create storage client"]
                 ELSE IF createS3Client(config[1], sessionErr) = "panic"
                 THEN [r EXCEPT !.status = 500]
                 ELSE [r EXCEPT !.pc = "get", !.fullKey = FullKey(user, key)]
        /\ UNCHANGED <<db, now, reqs, last, ops, up, calls, audit, objects, auditService>>

\* client.GetObject: the backend answers with the object as it is now and the
\* metadata it chooses to send, or with an error
GetObject(backendErr, hasContentType, hasContentLength) ==
    LET at == <<rd.config[1].BucketName, rd.fullKey>>
    IN  /\ rd.pc = "get"
        /\ rd' = IF backendErr \/ at \notin DOMAIN objects
                 THEN [rd EXCEPT !.pc = "get_returned",
                                 !.err = IF backendErr THEN "error" ELSE "NoSuchKey"]
                 ELSE [rd EXCEPT !.pc = "get_returned", !.object = objects[at],
                                 !.hasContentType = hasContentType,
                                 !.hasContentLength = hasContentLength]
        /\ UNCHANGED <<db, now, reqs, last, ops, up, calls, audit, objects, auditService>>

\* after GetObject has returned: the failure audited and answered, or the headers,
\* the dereference of resp.ContentType (a nil pointer panics, gin.Recovery answers
\* 500 with the Content-Disposition header already set) and io.Copy, which
\* delivers the first n pieces of the object and whose error is dropped
DownloadFileReturned(n) ==
    /\ rd.pc = "get_returned"
    /\ IF rd.err # ""
       THEN /\ rd' = [rd EXCEPT !.pc = "done", !.status = 500,
                                !.msg = "Failed to download file: "]
            /\ audit' = logDownload(audit, FALSE, "get_object", rd.key, rd.fullKey, <<>>)
       ELSE IF ~rd.hasContentType
       THEN /\ rd' = [rd EXCEPT !.pc = "done", !.status = 500, !.disposition = rd.key]
            /\ audit' = audit
       ELSE /\ rd' = [rd EXCEPT !.pc = "copied", !.status = 200, !.disposition = rd.key,
                                !.copied = (n = Len(rd.object)),
                                !.body = SubSeq(rd.object, 1, n)]
            /\ audit' = audit
    /\ UNCHANGED <<db, now, reqs, last, ops, up, calls, objects, auditService>>

\* after io.Copy has returned: the success audited with the content length the
\* backend sent, or 0
DownloadFileCopied ==
    /\ rd.pc = "copied"
    /\ rd' = [rd EXCEPT !.pc = "done"]
    /\ audit' = logDownload(audit, TRUE, "", rd.key, rd.fullKey,
                            IF rd.hasContentLength THEN <<ContentLen(rd.object)>> ELSE <<0>>)
    /\ UNCHANGED <<db, now, reqs, last, ops, up, calls, objects, auditService>>

\* ---------------------------------------------------------------------------
\* DeleteFile

\* DeleteFile up to the backend call: configuration, client, the namespaced key
DeleteFile(user, configID, key, sessionErr) ==
    LET config == ResolveConfig(user, configID)
        r == [NoRead EXCEPT !.kind = "delete", !.pc = "done", !.user = user,
                            !.config = config, !.key = key, !.upload = (up.pc = "done")]
    IN  /\ rd.pc = "idle"
        /\ rd' = IF config = <<>>
                 THEN [r EXCEPT !.status = 404, !.msg = "Configuration not found"]
                 ELSE IF createS3Client(config[1], sessionErr) = "nil"
                 THEN [r EXCEPT !.status = 500, !.msg = "Failed to create storage client"]
                 ELSE IF createS3Client(config[1], sessionErr) = "panic"
                 THEN [r EXCEPT !.status = 500]
                 ELSE [r EXCEPT !.pc = "delete", !.fullKey = FullKey(user, key)]
        /\ UNCHANGED <<db, now, reqs, last, ops, up, calls, audit, objects, auditService>>

\* client.DeleteObject: the backend removes the object (one that is not there
\* is removed without error), or refuses
DeleteObject(ok) ==
    /\ rd.pc = "delete"
    /\ objects' = IF ok THEN Del(objects, <<rd.config[1].BucketName, rd.fullKey>>) ELSE objects
    /\ rd' = [rd EXCEPT !.pc = "delete_returned", !.err = IF ok THEN "" ELSE "error"]
    /\ UNCHANGED <<db, now, reqs, last, ops, up, calls, audit, auditService>>

\* after DeleteObject has returned: the audit event and the response
DeleteFileReturned ==
    /\ rd.pc = "delete_returned"
    /\ audit' = IF auditService
                THEN Append(audit, [action |-> "delete_file", success |-> rd.err = "",
                                    stage |-> "", filename |-> rd.key,
                                    full_key |-> rd.fullKey, size |-> <<>>])
                ELSE audit
    /\ rd' = IF rd.err = ""
             THEN [rd EXCEPT !.pc = "done", !.status = 200, !.msg = "File deleted successfully"]
             ELSE [rd EXCEPT !.pc = "done", !.status = 500, !.msg = "Failed to delete file: "]
    /\ UNCHANGED <<db, now, reqs, last, ops, up, calls, objects, auditService>>

\* ---------------------------------------------------------------------------
\* Go's int on the 64-bit build: four 16-bit limbs, least significant first,
\* two's complement

Limb == 65536
SignBit == 32768

\* the int of a small natural number
FromNat(n) == <<n % Limb, (n \div Limb) % Limb, 0, 0>>

\* the natural number of an int that is known to be small and not negative
ToNat(x) == x[1] + x[2] * Limb

\* x + y, wrapping
Add64(x, y) ==
    LET s1 == x[1] + y[1]
        s2 == x[2] + y[2] + s1 \div Limb
        s3 == x[3] + y[3] + s2 \div Limb
        s4 == x[4] + y[4] + s3 \div Limb
    IN  <<s1 % Limb, s2 % Limb, s3 % Limb, s4 % Limb>>

\* -x, wrapping
Neg64(x) == Add64(<<Limb - 1 - x[1], Limb - 1 - x[2], Limb - 1 - x[3], Limb - 1 - x[4]>>,
                  FromNat(1))

\* x * k for 0 <= k < 2^15, wrapping; the fifth limb of MulLimbs is what the 64 bits lose
MulLimbs(x, k) ==
    LET p1 == x[1] * k
        p2 == x[2] * k + p1 \div Limb
        p3 == x[3] * k + p2 \div Limb
        p4 == x[4] * k + p3 \div Limb
    IN  <<p1 % Limb, p2 % Limb, p3 % Limb, p4 % Limb, p4 \div Limb>>
Mul64(x, k) == SubSeq(MulLimbs(x, k), 1, 4)

IsNeg(x) == x[4] >= SignBit

\* x < y as unsigned numbers
ULess(x, y) ==
    \E i \in 1..4 : x[i] < y[i] /\ \A j \in (i + 1)..4 : x[j] = y[j]

\* x < y
Less64(x, y) ==
    IF IsNeg(x) # IsNeg(y) THEN IsNeg(x) ELSE ULess(x, y)

\* ---------------------------------------------------------------------------
\* fmt.Sscanf(p, "%d", &v)

\* the scanner reads its input rune by rune (readRune.ReadRune, utf8.DecodeRune):
\* <<rune, bytes taken>> for the first rune of the bytes p; bytes that are not the
\* UTF-8 encoding of a rune give utf8.RuneError (U+FFFD) and take one byte
DecodeRune(p) ==
    LET cont(i, lo, hi) == i <= Len(p) /\ p[i] \in lo..hi
        b == p[1]
    IN  IF b < 128 THEN <<b, 1>>
        ELSE IF b \in 194..223 /\ cont(2, 128, 191)
        THEN <<(b - 192) * 64 + (p[2] - 128), 2>>
        ELSE IF /\ b \in 224..239
                /\ cont(2, IF b = 224 THEN 160 ELSE 128, IF b = 237 THEN 159 ELSE 191)
                /\ cont(3, 128, 191)
        THEN <<(b - 224) * 4096 + (p[2] - 128) * 64 + (p[3] - 128), 3>>
        ELSE IF /\ b \in 240..244
                /\ cont(2, IF b = 240 THEN 144 ELSE 128, IF b = 244 THEN 143 ELSE 191)
                /\ cont(3, 128, 191)
                /\ cont(4, 128, 191)
        THEN <<(b - 240) * 262144 + (p[2] - 128) * 4096 + (p[3] - 128) * 64 + (p[4] - 128), 4>>
        ELSE <<65533, 1>>

\* fmt's table of spaces: U+0009..U+000D, U+0020, U+0085, U+00A0, U+1680,
\* U+2000..U+200A, U+2028, U+2029, U+202F, U+205F, U+3000
isSpace(r) ==
    r \in (9..13) \cup {32, 133, 160, 5760} \cup (8192..8202)
             \cup {8232, 8233, 8239, 8287, 12288}

\* ss.SkipSpace where a newline is no space (Sscanf): the input after its leading
\* spaces, a carriage return before a newline passed over, or the error the
\* scanner raises at a newline
RECURSIVE SkipSpace(_)
SkipSpace(p) ==
    IF p = <<>> THEN [rest |-> <<>>, err |-> "nil"]
    ELSE LET d == DecodeRune(p)
             after == SubSeq(p, d[2] + 1, Len(p))
         IN  IF d[1] = 13 /\ after # <<>> /\ after[1] = 10 THEN SkipSpace(after)
             ELSE IF d[1] = 10 THEN [rest |-> after, err |-> "unexpected newline"]
             ELSE IF ~isSpace(d[1]) THEN [rest |-> p, err |-> "nil"]
             ELSE SkipSpace(after)

\* ss.scanNumber: the longest run of decimal digits p starts with
RECURSIVE scanNumber(_)
scanNumber(p) ==
    IF p # <<>> /\ p[1] \in 48..57 THEN <<p[1]>> \o scanNumber(Tail(p)) ELSE <<>>

\* strconv.ParseUint(digits, 10, 64): <<value>>, or <<>> when out of range
RECURSIVE ParseUint(_)
ParseUint(digits) ==
    IF digits = <<>> THEN <<FromNat(0)>>
    ELSE LET front == ParseUint(SubSeq(digits, 1, Len(digits) - 1))
             d == FromNat(digits[Len(digits)] - 48)
         IN  IF front = <<>> \/ MulLimbs(front[1], 10)[5] # 0 THEN <<>>
             ELSE LET m == Mul64(front[1], 10)
                      v == Add64(m, d)
                  IN  IF ULess(v, m) THEN <<>> ELSE <<v>>

\* strconv.ParseInt(tok, 10, 64): <<value>>, or <<>> when out of range
ParseInt(neg, digits) ==
    LET un == ParseUint(digits)
        cutoff == <<0, 0, 0, SignBit>>
    IN  IF un = <<>> THEN <<>>
        ELSE IF ~neg /\ ~ULess(un[1], cutoff) THEN <<>>
        ELSE IF neg /\ ULess(cutoff, un[1]) THEN <<>>
        ELSE IF neg THEN <<Neg64(un[1])>> ELSE un

\* fmt.Sscanf(p, "%d", &v): the value v holds afterwards, v itself when the scan fails
Sscanf(p, v) ==
    LET skipped == SkipSpace(p)
        q == skipped.rest
        neg == q # <<>> /\ q[1] = 45
        r == IF q # <<>> /\ q[1] \in {43, 45} THEN Tail(q) ELSE q
        digits == scanNumber(r)
        parsed == ParseInt(neg, digits)
    IN  IF skipped.err # "nil" \/ digits = <<>> \/ parsed = <<>> THEN v ELSE parsed[1]

\* ---------------------------------------------------------------------------
\* ListFiles

\* page := 1, then the scan of c.Query("page"), then page < 1
Page(p) ==
    LET scanned == IF p # sEmpty THEN Sscanf(p, FromNat(1)) ELSE FromNat(1)
    IN  IF Less64(scanned, FromNat(1)) THEN FromNat(1) ELSE scanned

\* pageSize := 10, then the scan, then pageSize < 1 || pageSize > 100
PageSize(ps) ==
    LET scanned == IF ps # sEmpty THEN Sscanf(ps, FromNat(10)) ELSE FromNat(10)
    IN  IF Less64(scanned, FromNat(1)) \/ Less64(FromNat(100), scanned)
        THEN FromNat(10) ELSE scanned

\* client.ListObjects(Bucket, Prefix): the keys of the bucket that start with the
\* prefix, in the backend's byte order
ListObjects(store, bucket, prefix) ==
    SortKeys({k[2] : k \in {o \in DOMAIN store : o[1] = bucket /\ HasPrefix(o[2], prefix)}})

\* strings.TrimPrefix
TrimPrefix(str, prefix) ==
    IF HasPrefix(str, prefix) THEN SubSeq(str, Len(prefix) + 1, Len(str)) ELSE str

\* the loop over result.Contents (last_modified, the backend's clock, is left out)
RECURSIVE Items(_, _, _, _)
Items(store, bucket, prefix, contents) ==
    IF contents = <<>> THEN <<>>
    ELSE LET displayKey == TrimPrefix(contents[1], prefix)
             rest == Items(store, bucket, prefix, Tail(contents))
         IN  IF displayKey = sEmpty THEN rest
             ELSE <<[key |-> displayKey, full_key |-> contents[1],
                     size |-> ContentLen(store[<<bucket, contents[1]>>])]>> \o rest

\* start, end and files[start:end]: <<"ok", paginated>>, or <<"panic">> when the
\* slice bounds are out of range
Paginate(files, page, pageSize) ==
    LET total == FromNat(Len(files))
        start0 == Mul64(Add64(page, Neg64(FromNat(1))), ToNat(pageSize))
        end0 == Add64(start0, pageSize)
        start == IF Less64(total, start0) THEN total ELSE start0
        end == IF Less64(total, end0) THEN total ELSE end0
    IN  IF IsNeg(start) \/ Less64(end, start) THEN <<"panic">>
        ELSE <<"ok", SubSeq(files, ToNat(start) + 1, ToNat(end))>>

\* ListFiles up to the backend call: paging parameters, configuration, client
ListFiles(user, configID, p, ps, sessionErr) ==
    LET config == ResolveConfig(user, configID)
        r == [NoRead EXCEPT !.kind = "list", !.pc = "done", !.user = user,
                            !.config = config, !.page = <<Page(p)>>,
                            !.pageSize = <<PageSize(ps)>>,
                            !.queryPage = p, !.queryPageSize = ps, !.upload = (up.pc = "done")]
    IN  /\ rd.pc = "idle"
        /\ rd' = IF config = <<>>
                 THEN [r EXCEPT !.status = 404, !.msg = "Configuration not found"]
                 ELSE IF createS3Client(config[1], sessionErr) = "nil"
                 THEN [r EXCEPT !.status = 500, !.msg = "Failed to create storage client"]
                 ELSE IF createS3Client(config[1], sessionErr) = "panic"
                 THEN [r EXCEPT !.status = 500]
                 ELSE [r EXCEPT !.pc = "list", !.prefix = FullKey(user, sEmpty)]
        /\ UNCHANGED <<db, now, reqs, last, ops, up, calls, audit, objects, auditService>>

\* client.ListObjects and the rest of ListFiles: the items, the page, the response
ListFilesObjects(backendErr) ==
    LET files == Items(objects, rd.config[1].BucketName, rd.prefix,
                       ListObjects(objects, rd.config[1].BucketName, rd.prefix))
        paginated == Paginate(files, rd.page[1], rd.pageSize[1])
    IN  /\ rd.pc = "list"
        /\ rd' = IF backendErr
                 THEN [rd EXCEPT !.pc = "done", !.status = 500, !.msg = "Failed to list files: "]
                 ELSE IF paginated[1] = "panic"
                 THEN [rd EXCEPT !.pc = "done", !.status = 500]
                 ELSE [rd EXCEPT !.pc = "done", !.status = 200,
                                 !.files = paginated[2], !.total = Len(files),
                                 !.config_id = rd.config[1].ID]
        /\ UNCHANGED <<db, now, reqs, last, ops, up, calls, audit, objects, auditService>>

\* an upload request with a file below, at or above the threshold
UploadFewStep ==
    \E user \in FileUsers, sessionErr \in BOOLEAN, hasFile \in BOOLEAN :
        \E configID \in ConfigIdParams(db), filename \in Filenames :
            \E fileSize \in {1, multipartThreshold, multipartThreshold + 1} :
                UploadFileBegin(user, configID, sessionErr, hasFile, filename, fileSize)
CreateMultipartUploadStep == \E ok \in BOOLEAN, uploadId \in {"u1", "u2"} : CreateMultipartUpload(ok, uploadId)
ReadPartStep == \E read \in ReadOutcomes(up.rem, up.short) : ReadPart(read[1], read[2])
UploadPartStep == \E ok \in BOOLEAN : UploadPart(ok)
CompleteMultipartUploadStep == \E ok \in BOOLEAN : CompleteMultipartUpload(ok)
PutObjectStep == \E ok \in BOOLEAN : PutObject(ok)

----------------------------------------------------------------------------
(* Specifications *)

\* the registry of a freshly opened database, no request yet
Init ==
    /\ db = <<>>
    /\ now = 1
    /\ reqs = [r \in Slots |-> Idle]
    /\ last = Idle
    /\ ops = 0
    /\ up = NoUpload
    /\ calls = <<>>
    /\ audit = <<>>
    /\ auditService \in BOOLEAN
    /\ objects = <<>>
    /\ rd = NoRead

\* requests are served one at a time: each handler returns before the next is entered
Next == RequestSeq \/ Steps

Spec == Init /\ [][Next]_vars

\* the same one-at-a-time service, for behaviours of at most MaxShortOps requests
RequestShort == \E r \in Slots : ops < MaxShortOps /\ AcceptSeq(r) /\ Begin(r)

NextShort == RequestShort \/ Steps

SpecShort == Init /\ [][NextShort]_vars

\* CreateConfig run alone on store at time t with a body that passes the probe
Created(store, user, body, t) ==
    LET config == [body EXCEPT !.ID = generateConfigID(t), !.UserID = user]
    IN  saveConfig(store,
                   IF Len(getUserConfigs(store, user)) = 0
                   THEN [config EXCEPT !.IsDefault = TRUE] ELSE config,
                   t + 1)

\* registries that MaxOps - MaxRaceOps requests served one at a time leave behind
\* (each is a state of Spec): <<db, now>>
Seeds ==
    { <<<<>>, 1>>,
      <<Created(<<>>, userA, BodyPlain, 1), 2>>,
      <<Created(Created(<<>>, userA, BodyPlain, 1), userA, BodyPlain, 2), 3>>,
      <<Created(Created(<<>>, userA, BodyPlain, 1), userAB, BodyPlain, 2), 3>> }

InitRace ==
    /\ \E seed \in Seeds : db = seed[1] /\ now = seed[2]
    /\ reqs = [r \in Slots |-> Idle]
    /\ last = Idle
    /\ ops = MaxOps - MaxRaceOps
    /\ up = NoUpload
    /\ calls = <<>>
    /\ audit = <<>>
    /\ auditService \in BOOLEAN
    /\ objects = <<>>
    /\ rd = NoRead

\* handlers run concurrently, one goroutine per request; a step is one
\* badger transaction with the handler's own code around it
NextRace == Request \/ Steps

SpecRace == InitRace /\ [][NextRace]_vars

\* registries of the single owner "a", taken from Seeds as <<db, now>>
InitOwnerRace ==
    /\ \E seed \in {s \in Seeds : \A k \in DOMAIN s[1] : s[1][k].UserID = userA} :
          db = seed[1] /\ now = seed[2]
    /\ reqs = [r \in Slots |-> Idle]
    /\ last = Idle
    /\ ops = MaxOps - MaxRaceOps
    /\ up = NoUpload
    /\ calls = <<>>
    /\ audit = <<>>
    /\ auditService \in BOOLEAN
    /\ objects = <<>>
    /\ rd = NoRead

\* owner "a" creates a configuration without is_default, or names one of its
\* own configurations in a set-default or delete request
BeginOwner(r) ==
    LET own == {db[k].ID : k \in {x \in DOMAIN db : HasPrefix(x, sUserConfig)
                                                      /\ db[x].UserID = userA}}
    IN  /\ ops' = ops + 1
        /\ \/ CreateConfigBegin(r, userA, <<BodyPlain>>)
           \/ \E id \in own : DeleteConfigBegin(r, userA, id)
           \/ \E id \in own : SetDefaultConfigBegin(r, userA, id)

\* concurrent create, set-default and delete handlers of one owner, next to the
\* bulk import and export of an administrator
NextOwnerRace ==
    \/ \E r \in Slots : Accept(r) /\ BeginOwner(r)
    \/ CreateConfigReadStep
    \/ CreateConfigSaveStep
    \/ DeleteConfigDeleteStep
    \/ setDefaultConfigReadStep
    \/ setDefaultConfigClearStep
    \/ setDefaultConfigSetStep

SpecOwnerRace == InitOwnerRace /\ [][NextOwnerRace]_vars

\* registries of owner "a" after two manual creates and one auto-provisioning
\* (AutoConfigureMinIO saves the record CreateMinIOUserAndBucket returns), and
\* after a setDefaultConfig of the first record run alone on top of that:
\* <<db, now>>
PromoteSeeds ==
    LET RECURSIVE ClearedFrom(_, _, _, _)
        ClearedFrom(store, configs, i, t) ==
            IF i > Len(configs) THEN store
            ELSE ClearedFrom(IF configs[i].IsDefault
                             THEN saveConfig(store, [configs[i] EXCEPT !.IsDefault = FALSE], t)
                             ELSE store,
                             configs, i + 1, t)
        DefaultSet(store, user, configID, t) ==
            LET configs == getUserConfigs(store, user)
                hits == {i \in 1..Len(configs) : configs[i].ID = configID}
                cleared == ClearedFrom(store, configs, 1, t)
            IN  IF hits = {} THEN cleared
                ELSE saveConfig(cleared, [configs[First(hits)] EXCEPT !.IsDefault = TRUE], t)
        two == Created(Created(<<>>, userA, BodyPlain, 1), userA, BodyPlain, 2)
        three == saveConfig(two, CreateMinIOUserAndBucket(<<117>>, userA, <<51, 101>>, 4), 4)
    IN  { <<three, 5>>,
          <<DefaultSet(three, userA, generateConfigID(1), 5), 6>> }

InitPromote ==
    /\ \E seed \in PromoteSeeds : db = seed[1] /\ now = seed[2]
    /\ reqs = [r \in Slots |-> Idle]
    /\ last = Idle
    /\ ops = MaxOps - 1
    /\ up = NoUpload
    /\ calls = <<>>
    /\ audit = <<>>
    /\ auditService \in BOOLEAN
    /\ objects = <<>>
    /\ rd = NoRead

\* one more request on a registry of three records
SpecPromote == InitPromote /\ [][Next]_vars

\* the registries an upload is run against: Seeds, and the one AutoConfigureMinIO
\* leaves behind for a first user
TransferSeeds ==
    Seeds \cup { <<saveConfig(<<>>, CreateMinIOUserAndBucket(<<117>>, userA, <<51,101>>, 1), 1), 1>> }

InitTransfer ==
    /\ \E seed \in TransferSeeds : db = seed[1] /\ now = seed[2]
    /\ reqs = [r \in Slots |-> Idle]
    /\ last = Idle
    /\ ops = MaxOps - MaxRaceOps
    /\ up = NoUpload
    /\ calls = <<>>
    /\ audit = <<>>
    /\ auditService \in BOOLEAN
    /\ objects = <<>>
    /\ rd = NoRead

\* one UploadFile invocation, a step per backend call or read of the stream
NextTransfer ==
    \/ \E user \in FileUsers, sessionErr \in BOOLEAN, hasFile \in BOOLEAN :
         \E configID \in ConfigIdParams(db), filename \in Filenames, fileSize \in Sizes :
             UploadFileBegin(user, configID, sessionErr, hasFile, filename, fileSize)
    \/ CreateMultipartUploadStep
    \/ CreateMultipartUploadFailed
    \/ ReadPartStep
    \/ UploadPartStep
    \/ \E abortOk \in BOOLEAN : AbortMultipartUpload(abortOk)
    \/ UploadPartFailed
    \/ CompleteMultipartUploadStep
    \/ CompleteMultipartUploadReturned
    \/ PutObjectStep
    \/ PutObjectReturned

SpecTransfer == InitTransfer /\ [][NextTransfer]_vars

\* bytes that were in the bucket before: content that is not of the submitted stream
Old(k, n) == <<[from |-> 0 - k, len |-> n]>>

sBk == <<98, 107>>   \* "bk"

\* registries in which the owners "a", "a_b" and "a/b" hold configurations of
\* the same bucket, with the bucket as earlier uploads left it: <<db, now, objects>>
FileSeeds ==
    { <<Created(<<>>, userA, BodyPlain, 1), 2, <<>>>>,
      <<Created(Created(<<>>, userA, BodyPlain, 1), userAB, BodyPlain, 2), 3,
        Store(Store(<<>>, sBk, FullKey(userA, <<102>>), Old(2, 2)),
              sBk, FullKey(userAB, sG), Old(3, 1))>>,
      <<Created(Created(<<>>, userA, BodyPlain, 1), userSlash, BodyPlain, 2), 3,
        Store(Store(<<>>, sBk, FullKey(userA, sG), Old(1, 3)),
              sBk, FullKey(userA, sEmpty), <<>>)>> }

InitFiles ==
    /\ \E seed \in FileSeeds : db = seed[1] /\ now = seed[2] /\ objects = seed[3]
    /\ reqs = [r \in Slots |-> Idle]
    /\ last = Idle
    /\ ops = MaxOps - MaxRaceOps
    /\ up = NoUpload
    /\ calls = <<>>
    /\ audit = <<>>
    /\ auditService \in BOOLEAN
    /\ rd = NoRead

\* one UploadFile invocation next to one DownloadFile or DeleteFile invocation,
\* a step per backend call
NextFiles ==
    \/ UploadFewStep
    \/ CreateMultipartUploadStep
    \/ CreateMultipartUploadFailed
    \/ ReadPartStep
    \/ UploadPartStep
    \/ \E abortOk \in BOOLEAN : AbortMultipartUpload(abortOk)
    \/ UploadPartFailed
    \/ CompleteMultipartUploadStep
    \/ CompleteMultipartUploadReturned
    \/ PutObjectStep
    \/ PutObjectReturned
    \/ \E user \in FileUsers, sessionErr \in BOOLEAN :
         \E configID \in ConfigIdParams(db), key \in Keys :
             DownloadFile(user, configID, key, sessionErr)
    \/ \E backendErr \in BOOLEAN, hasContentType \in BOOLEAN, hasContentLength \in BOOLEAN :
         GetObject(backendErr, hasContentType, hasContentLength)
    \/ \E n \in 0..Len(rd.object) : DownloadFileReturned(n)
    \/ DownloadFileCopied
    \/ \E user \in FileUsers, sessionErr \in BOOLEAN :
         \E configID \in ConfigIdParams(db), key \in Keys :
             DeleteFile(user, configID, key, sessionErr)
    \/ \E ok \in BOOLEAN : DeleteObject(ok)
    \/ DeleteFileReturned

SpecFiles == InitFiles /\ [][NextFiles]_vars

\* one UploadFile invocation next to one ListFiles invocation
NextListing ==
    \/ UploadFewStep
    \/ CreateMultipartUploadStep
    \/ CreateMultipartUploadFailed
    \/ ReadPartStep
    \/ UploadPartStep
    \/ \E abortOk \in BOOLEAN : AbortMultipartUpload(abortOk)
    \/ UploadPartFailed
    \/ CompleteMultipartUploadStep
    \/ CompleteMultipartUploadReturned
    \/ PutObjectStep
    \/ PutObjectReturned
    \* c.Query("page") is "" or "2", c.Query("page_size") is ""
    \/ \E user \in FileUsers, sessionErr \in BOOLEAN :
         \E configID \in ConfigIdParams(db), p \in {sEmpty, <<50>>} :
             ListFiles(user, configID, p, sEmpty, sessionErr)
    \/ \E backendErr \in BOOLEAN : ListFilesObjects(backendErr)

SpecListing == InitFiles /\ [][NextListing]_vars

\* c.Query("page"): absent, small, not a number, signed, padded with an ASCII or
\* a Unicode space, behind a newline, behind bytes that are no rune, and numbers
\* at the edge of the 64-bit range
QueryPages ==
    { sEmpty,
      <<48>>,   \* "0"
      <<45, 49>>,   \* "-1"
      <<49>>,   \* "1"
      <<50>>,   \* "2"
      <<51>>,   \* "3"
      <<120>>,   \* "x"
      <<50, 120>>,   \* "2x"
      <<32, 50>>,   \* " 2"
      <<194, 160, 50>>,   \* U+00A0 "2"
      <<226, 128, 131, 51>>,   \* U+2003 "3"
      <<10, 50>>,   \* "\n2"
      <<13, 10, 50>>,   \* "\r\n2"
      <<13, 50>>,   \* "\r2"
      <<194, 50>>,   \* byte C2 then "2"
      <<43, 50>>,   \* "+2"
      <<52, 54, 49, 49, 54, 56, 54, 48, 49, 56, 52, 50, 55, 51, 56, 55, 57, 48, 53>>,     \* "4611686018427387905"
      <<57, 50, 50, 51, 51, 55, 50, 48, 51, 54, 56, 53, 52, 55, 55, 53, 56, 48, 55>>,     \* "9223372036854775807"
      <<57, 50, 50, 51, 51, 55, 50, 48, 51, 54, 56, 53, 52, 55, 55, 53, 56, 48, 56>>,     \* "9223372036854775808"
      <<49, 56, 52, 52, 54, 55, 52, 52, 48, 55, 51, 55, 48, 57, 53, 53, 49, 54, 50>>,     \* "1844674407370955162"
      <<57, 50, 50, 51, 51, 55, 50, 48, 51, 54, 56, 53, 52, 55, 55, 53, 56, 49>> }         \* "922337203685477581"

\* c.Query("page_size")
QueryPageSizes ==
    { sEmpty,
      <<48>>,   \* "0"
      <<49>>,   \* "1"
      <<50>>,   \* "2"
      <<52>>,   \* "4"
      <<49, 48>>,   \* "10"
      <<49, 48, 48>>,   \* "100"
      <<49, 48, 49>>,   \* "101"
      <<45, 53>>,   \* "-5"
      <<194, 160, 50>>,   \* U+00A0 "2"
      <<227, 128, 128, 52>>,   \* U+3000 "4"
      <<120>> }                                                                            \* "x"

\* the registry of owner "a" with the bucket empty, and holding three objects
\* of the owner next to the bare prefix: <<db, now, objects>>
PageSeeds ==
    { <<Created(<<>>, userA, BodyPlain, 1), 2, <<>>>>,
      <<Created(<<>>, userA, BodyPlain, 1), 2,
        Store(<<>>, sBk, FullKey(userA, sG), Old(1, 3))>>,
      <<Created(<<>>, userA, BodyPlain, 1), 2,
        Store(Store(Store(Store(<<>>, sBk, FullKey(userA, <<102>>), Old(2, 2)),
                          sBk, FullKey(userA, sG), Old(1, 3)),
                    sBk, FullKey(userA, <<104>>), Old(3, 1)),
              sBk, FullKey(userA, sEmpty), <<>>)>> }

InitPages ==
    /\ \E seed \in PageSeeds : db = seed[1] /\ now = seed[2] /\ objects = seed[3]
    /\ reqs = [r \in Slots |-> Idle]
    /\ last = Idle
    /\ ops = MaxOps - MaxRaceOps
    /\ up = NoUpload
    /\ calls = <<>>
    /\ audit = <<>>
    /\ auditService \in BOOLEAN
    /\ rd = NoRead

\* one ListFiles invocation over every paging input
NextPages ==
    \/ \E p \in QueryPages, ps \in QueryPageSizes : ListFiles(userA, sEmpty, p, ps, FALSE)
    \/ \E backendErr \in BOOLEAN : ListFilesObjects(backendErr)

SpecPages == InitPages /\ [][NextPages]_vars

----------------------------------------------------------------------------
(* Properties of the configuration registry *)

\* the keys of the registry records that belong to owner
Owned(store, owner) ==
    {k \in DOMAIN store : HasPrefix(k, sUserConfig) /\ store[k].UserID = owner}

Defaults(store, owner) == {k \in Owned(store, owner) : store[k].IsDefault}

\* exactly one default among the owner's records, none when there is no record
OneDefault(store, owner) ==
    IF Owned(store, owner) = {} THEN Defaults(store, owner) = {}
    ELSE Cardinality(Defaults(store, owner)) = 1

Quiet == \A r \in Slots : Free(r)

\* the records of a snapshot returned by getUserConfigs that belong to owner
OwnedIn(configs, owner) == {i \in 1..Len(configs) : configs[i].UserID = owner}

\* C1: between operations every owner with at least one configuration has
\* exactly one configuration flagged is_default, and an owner with none has none
C1_OneDefaultBetweenOperations == Quiet => \A owner \in Users : OneDefault(db, owner)

\* the snapshot holds records of owner only, exactly one of them flagged
OneFlagged(configs, owner) ==
    /\ OwnedIn(configs, owner) = 1..Len(configs)
    /\ Cardinality({i \in 1..Len(configs) : configs[i].IsDefault}) = 1

\* slot r runs a setDefault call on a record of its snapshot, or a delete of the
\* flagged record, and the snapshot it read showed exactly one default
FlipInProgress(r) ==
    LET q == reqs[r] IN
    \/ /\ q.kind = "setdefault" /\ q.pc = "sd_loop"
       /\ OneFlagged(q.sd, q.user)
       /\ \E i \in 1..Len(q.sd) : q.sd[i].ID = q.target
    \/ /\ q.kind = "delete" /\ q.pc \in {"delete_delete", "sd_read", "sd_loop"}
       /\ OneFlagged(q.configs, q.user)
       /\ \E i \in 1..Len(q.configs) : q.configs[i].ID = q.id /\ q.configs[i].IsDefault

\* the items of a list response that are flagged
ListedDefaults(resp) == {i \in 1..Len(resp) : resp[i].is_default}

\* C2: a list request of the same owner answered while a setDefault or a delete
\* of the default is in progress shows exactly one default, never zero or two
C2_ReadersSeeOneDefault ==
    \A r \in Slots :
        (FlipInProgress(r) /\ last.pc = "done" /\ last.kind = "list"
                           /\ last.user = reqs[r].user)
            => Cardinality(ListedDefaults(last.resp)) = 1

\* the delete request q was made for the only configuration its owner had
SoleConfig(q) ==
    /\ q.kind = "delete"
    /\ Cardinality(OwnedIn(q.configs, q.user)) = 1
    /\ \A i \in OwnedIn(q.configs, q.user) : q.configs[i].ID = q.id

\* C3: delete of an owner's sole configuration is refused as the last
\* configuration and the record stays as it was
C3_LastConfigRefused ==
    (last.pc = "done" /\ SoleConfig(last)) =>
        /\ last.status = 400
        /\ last.msg = "Cannot delete the last configuration"
        /\ \A i \in OwnedIn(last.configs, last.user) :
               getConfigByID(db, last.user, last.id) = <<last.configs[i]>>

\* the delete request q was made for the one flagged record of an owner with two or more
DeletesDefault(q) ==
    /\ q.kind = "delete"
    /\ Cardinality(OwnedIn(q.configs, q.user)) >= 2
    /\ Cardinality({i \in OwnedIn(q.configs, q.user) : q.configs[i].IsDefault}) = 1
    /\ \E i \in OwnedIn(q.configs, q.user) : q.configs[i].ID = q.id /\ q.configs[i].IsDefault

\* C4: once the delete of an owner's default has returned, the record is gone
\* and exactly one of the owner's remaining records is flagged
C4_DeleteDefaultPromotesOne ==
    (last.pc = "done" /\ DeletesDefault(last)) =>
        /\ ConfigKey(last.user, last.id) \notin DOMAIN db
        /\ Cardinality(Defaults(db, last.user)) = 1

\* the update request q has made its saveConfig call
Saved(q) == q.kind = "update" /\ q.config # <<>> /\ q.pc # "update_save"

\* every request whose last step is visible: the running ones and the one that returned last
Visible == {reqs[r] : r \in Slots} \cup {last}

\* the key of the record an update request addresses
UpdatedKey(q) == ConfigKey(q.existing[1].UserID, q.existing[1].ID)

\* C5: the record an update has saved keeps the id, owner, created_at and
\* is_default it had before, whatever the request body says
C5_UpdateKeepsIdentity ==
    \A q \in Visible :
        (Saved(q) /\ UpdatedKey(q) \in DOMAIN db) =>
            LET stored == db[UpdatedKey(q)]
                before == q.existing[1]
            IN  /\ stored.ID = before.ID
                /\ stored.UserID = before.UserID
                /\ stored.CreatedAt = before.CreatedAt
                /\ stored.IsDefault = before.IsDefault

\* an update whose body disagrees with the record on all four fields was saved
C5_Witness ==
    \E q \in Visible :
        /\ Saved(q) /\ UpdatedKey(q) \in DOMAIN db
        /\ q.body[1].ID # q.existing[1].ID
        /\ q.body[1].UserID # q.existing[1].UserID
        /\ q.body[1].CreatedAt # q.existing[1].CreatedAt
        /\ q.body[1].IsDefault # q.existing[1].IsDefault

\* C6: an update whose body has no secret_key leaves the stored secret of the
\* configuration as it was
C6_OmittedSecretUnchanged ==
    \A q \in Visible :
        (q.kind = "update" /\ q.updateData # <<>> /\ q.body[1].SecretKey = sEmpty
                           /\ UpdatedKey(q) \in DOMAIN db) =>
            db[UpdatedKey(q)].SecretKey = q.existing[1].SecretKey

\* an update that names every member but secret_key, of a record that holds a
\* secret, has returned
C6_Witness ==
    \E q \in Visible :
        /\ q.kind = "update" /\ q.pc = "done" /\ q.updateData # <<>>
        /\ q.body[1].SecretKey = sEmpty /\ q.body[1].AccessKey # sEmpty
        /\ q.body[1].BucketName # sEmpty
        /\ q.existing[1].SecretKey # sEmpty
        /\ UpdatedKey(q) \in DOMAIN db

\* secrets unlike every secret the requests of this model can store
OtherSecrets == {<<111,49>>, <<111,50>>}     \* "o1", "o2"

\* C7: an item of the list response has no secret_key member and is the same
\* whatever the record's secret is; the owner's get returns the secret
C7_ListHidesSecret ==
    /\ (last.pc = "done" /\ last.kind = "list") =>
          LET configs == getUserConfigs(db, last.user)
          IN  /\ Len(last.resp) = Len(configs)
              /\ \A i \in 1..Len(configs) :
                    /\ "secret_key" \notin DOMAIN last.resp[i]
                    /\ \A other \in OtherSecrets :
                          last.resp[i] = safeConfig([configs[i] EXCEPT !.SecretKey = other])
    /\ (last.pc = "done" /\ last.kind = "get" /\ last.status = 200) =>
          last.resp[1].SecretKey = db[ConfigKey(last.user, last.id)].SecretKey

\* a list response with an item for a record that has a secret
C7_Witness ==
    /\ last.pc = "done" /\ last.kind = "list"
    /\ \E i \in 1..Len(last.resp) : getUserConfigs(db, last.user)[i].SecretKey # sEmpty

\* the keys of the records whose ID is id, under any owner
Holders(store, id) == {k \in DOMAIN store : store[k].ID = id}

\* C8: get of an id that exists under some owner answers 200 with the full record
\* to the owner or an administrator and 403 to anyone else; 404 only when no
\* configuration has that id
C8_GetForbiddenNotMissing ==
    (last.pc = "done" /\ last.kind = "get") =>
        IF Holders(db, last.id) = {} THEN last.status = 404
        ELSE \A k \in Holders(db, last.id) :
                IF db[k].UserID = last.user \/ last.isAdmin
                THEN last.status = 200 /\ last.resp = <<db[k]>>
                ELSE last.status = 403

----------------------------------------------------------------------------
(* Properties of the transfer engine *)

\* the upload went to the backend as a multipart session
TookMultipart == calls # <<>> /\ calls[1].op = "CreateMultipartUpload"

\* the upload went to the backend as one PutObject of the whole stream and nothing else
TookSinglePut ==
    /\ calls # <<>> /\ calls[1].op = "PutObject" /\ calls[1].Size = <<up.size>>
    /\ Len(calls) = 1

\* C9 as stated: an upload that reaches the backend is multipart if and only if
\* its size is at or above 5 MiB, and a single put for every smaller size
C9_MultipartAtOrAboveThreshold ==
    calls # <<>> =>
        /\ TookMultipart <=> up.size >= 5 * 1024 * 1024
        /\ TookSinglePut <=> up.size < 5 * 1024 * 1024

\* C9 amended: an upload that reaches the backend is multipart if and only if its
\* size exceeds 5 MiB; exactly 5 MiB and every smaller size is a single put
C9_MultipartAboveThreshold ==
    calls # <<>> =>
        /\ TookMultipart <=> up.size > 5 * 1024 * 1024
        /\ TookSinglePut <=> up.size <= 5 * 1024 * 1024

\* a file of exactly 5 MiB was stored with one PutObject
C9_Witness ==
    /\ up.pc = "done" /\ up.status = 200
    /\ up.size = 5 * 1024 * 1024
    /\ TookSinglePut

\* the positions in the call log of the part uploads the backend rejected
FailedParts == {i \in 1..Len(calls) : calls[i].op = "UploadPart" /\ ~calls[i].ok}

\* the last audit event is a failure of stage upload_part with the number of part i
AuditedPartFailure(i) ==
    /\ audit # <<>>
    /\ ~audit[Len(audit)].success
    /\ audit[Len(audit)].stage = "upload_part"
    /\ audit[Len(audit)].part_number = calls[i].PartNumber

SessionClosed ==
    \E i \in 1..Len(calls) :
        /\ calls[i].UploadId = up.uploadId
        /\ \/ calls[i].op = "CompleteMultipartUpload" /\ calls[i].ok
           \/ calls[i].op = "AbortMultipartUpload"

\* C11: an upload that obtained an uploadId returns only after the backend was
\* told to complete or abort that session, whichever way it failed after initiation
C11_SessionTerminalOnReturn ==
    (up.pc = "done" /\ up.uploadId # "") => SessionClosed

\* the download that follows the upload: it was requested after the upload had
\* returned, by the same owner under the same configuration, for the filename
\* the upload answered with, and its body reached the caller whole
SameFile ==
    /\ up.pc = "done" /\ up.status = 200
    /\ rd.kind = "download" /\ rd.status = 200 /\ rd.upload /\ rd.copied
    /\ rd.user = up.user /\ rd.config = up.config /\ rd.key = up.respKey

\* C12: a download that follows a successful upload of the same filename by the
\* same owner under the same configuration returns the bytes of the submitted
\* stream, all of them and in stream order, whichever path the upload took
C12_RoundTrip == SameFile => rd.body = Bytes(0, up.size)

\* a file of two parts went up and came back
C12_Witness ==
    /\ SameFile
    /\ TookMultipart
    /\ Len(up.completedParts) >= 2
    /\ rd.body = Bytes(0, up.size)

\* a file below the threshold went up in one request and came back
C12_WitnessSmall == SameFile /\ ~TookMultipart /\ up.size > 0 /\ rd.body = Bytes(0, up.size)

\* a list by another owner whose configuration names the bucket of the upload
ForeignList ==
    /\ up.pc = "done" /\ up.status = 200
    /\ rd.kind = "list" /\ rd.status = 200
    /\ rd.user # up.user
    /\ rd.config[1].BucketName = up.config[1].BucketName

\* C13: an object uploaded by one owner is in no list returned to a different
\* owner whose configuration points at the same bucket
C13_ForeignUploadNotListed ==
    ForeignList => \A i \in 1..Len(rd.files) : rd.files[i].full_key # up.key

\* the value starts with the namespace of the owner
Namespaced(value, user) == HasPrefix(value, FullKey(user, sEmpty))

\* C14: the key of an upload response is the submitted filename, and no
\* key-bearing field (key, full_key) of any item of a list response starts with
\* users/{ownerId}/
C14_KeysAreLogical ==
    /\ (up.pc = "done" /\ up.status = 200)
           => (up.respKey = up.filename /\ ~Namespaced(up.respKey, up.user))
    /\ (rd.kind = "list" /\ rd.status = 200)
           => \A i \in 1..Len(rd.files) :
                  /\ ~Namespaced(rd.files[i].key, rd.user)
                  /\ ~Namespaced(rd.files[i].full_key, rd.user)

\* the number a plain decimal string of at most three digits stands for, -1 otherwise
Requested(str) ==
    IF Len(str) \in 1..3 /\ \A i \in 1..Len(str) : str[i] \in 48..57
    THEN IF Len(str) = 1 THEN str[1] - 48
         ELSE IF Len(str) = 2 THEN (str[1] - 48) * 10 + (str[2] - 48)
         ELSE (str[1] - 48) * 100 + (str[2] - 48) * 10 + (str[3] - 48)
    ELSE -1

\* the list call got as far as the page computation and ended there without a response body
PagingFailure ==
    rd.kind = "list" /\ rd.status = 500 /\ rd.msg = "" /\ rd.prefix # sEmpty

\* the effective values are in range, requested in-range values are kept, 10 is the default
Clamped ==
    rd.kind = "list" =>
        /\ ~IsNeg(rd.page[1]) /\ rd.page[1] # FromNat(0)
        /\ rd.pageSize[1][3] = 0 /\ rd.pageSize[1][4] = 0 /\ ToNat(rd.pageSize[1]) \in 1..100
        /\ Requested(rd.queryPage) >= 1 => rd.page[1] = FromNat(Requested(rd.queryPage))
        /\ Requested(rd.queryPageSize) \in 1..100
               => rd.pageSize[1] = FromNat(Requested(rd.queryPageSize))
        /\ rd.queryPageSize = sEmpty => rd.pageSize[1] = FromNat(10)

\* C15: whatever page and page_size a list request carries, the effective page
\* is at least 1, the effective pageSize is in 1..100, in-range values are used
\* as requested, an absent page_size means 10, and the request does not fail
\* on account of the two values
C15_PagingClampedNeverRejected == Clamped /\ ~PagingFailure

\* the objects the owner of the list has in the bucket of the list
TrueTotal ==
    Cardinality({o \in DOMAIN objects : /\ o[1] = rd.config[1].BucketName
                                         /\ HasPrefix(o[2], rd.prefix)
                                         /\ o[2] # rd.prefix})

\* the page lies beyond the last page of total items
BeyondLast(page, pageSize, total) ==
    Less64(FromNat((total + ToNat(pageSize) - 1) \div ToNat(pageSize)), page)

\* C16: a list call does not fail on account of its page number, and a page
\* beyond the last one is answered with no items and the true total, for every
\* page a 64-bit integer can hold; a first page over no objects is empty with total 0
C16_PageBeyondLastIsEmpty ==
    /\ ~PagingFailure
    /\ (rd.kind = "list" /\ rd.status = 200)
          => /\ rd.total = TrueTotal
             /\ BeyondLast(rd.page[1], rd.pageSize[1], TrueTotal) => rd.files = <<>>

\* C17: when an upload call has returned from a service that has an audit
\* service, the Audit Sink holds an event of the call whose success flag is the
\* outcome of the call and which, on failure, names a stage, whichever way the
\* call ended
C17_EveryUploadAudited ==
    (up.pc = "done" /\ auditService) =>
        \E i \in 1..Len(audit) :
            /\ audit[i].action = "upload_file"
            /\ audit[i].success = (up.status = 200)
            /\ ~audit[i].success => audit[i].stage # ""

\* C18: a download for which the backend reports that the object does not exist
\* ends with a 404, while any other backend error ends with the generic failure
C18_MissingObjectIsNotFound ==
    (rd.kind = "download" /\ rd.pc = "done") =>
        /\ rd.err = "NoSuchKey" => rd.status = 404
        /\ rd.err = "error" => rd.status = 500

\* a configuration the factory is to refuse: a credential or the bucket name is
\* empty, or a self-hosted endpoint is not a base URL (the empty string is none)
Malformed(config) ==
    \/ config.AccessKey = sEmpty
    \/ config.SecretKey = sEmpty
    \/ config.BucketName = sEmpty
    \/ config.StorageType = sMinio /\ config.EndpointURL = sEmpty

\* C19: the client factory does not panic, and for a malformed configuration
\* or a session error the handler that called it is told that no client was made
C19_FactoryFailsClosed ==
    (last.pc = "done" /\ last.kind = "create" /\ last.body # <<>>) =>
        /\ last.msg # "panic"
        /\ Malformed(last.body[1]) => last.msg = "Failed to create storage client"

\* the first of the owner's records in registry order
FirstOwned(store, owner) ==
    store[CHOOSE k \in Owned(store, owner) :
              \A other \in Owned(store, owner) \ {k} : LexLess(k, other)]

\* C20: getDefaultConfig returns a record of the owner flagged is_default when
\* there is one, else the first record of the owner in registry order, and it
\* fails exactly when the owner has no record
C20_GetDefaultOfOwner ==
    \A owner \in Users :
        LET got == getDefaultConfig(db, owner)
        IN  IF Owned(db, owner) = {} THEN got = <<>>
            ELSE IF Defaults(db, owner) # {}
            THEN got # <<>> /\ got[1].UserID = owner /\ got[1].IsDefault
            ELSE got = <<FirstOwned(db, owner)>>

\* slot r takes its deleteConfig step, having read a snapshot of its owner's records only
DeletesNow(r) ==
    /\ reqs[r].kind = "delete" /\ reqs[r].pc = "delete_delete"
    /\ reqs'[r] # reqs[r]
    /\ OwnedIn(reqs[r].configs, reqs[r].user) = 1..Len(reqs[r].configs)

\* C21: however delete requests of one owner interleave, no delete takes an
\* owner who has a configuration to having none
C21_ConcurrentDeletesKeepOne ==
    [][\A r \in Slots :
          (DeletesNow(r) /\ Owned(db, reqs[r].user) # {}) => Owned(db', reqs[r].user) # {}]_vars

\* C22: once every create, set-default and delete request of one owner has
\* returned, however they interleaved, the owner has exactly one configuration
\* flagged is_default if it has any
C22_OneDefaultAfterRace == Quiet => OneDefault(db, userA)

\* the delete that has just returned removed the default of a snapshot of its
\* owner's records, in which no other record was flagged
DeletedTheDefault ==
    /\ Quiet
    /\ last.pc = "done" /\ last.kind = "delete" /\ last.status = 200
    /\ OwnedIn(last.configs, last.user) = 1..Len(last.configs)
    /\ \A i \in 1..Len(last.configs) : last.configs[i].IsDefault = (last.configs[i].ID = last.id)

\* C23: after the delete of the default returns, the flagged record is the one
\* of the remaining records that was created first, whether the remaining
\* records came from create or from auto-provisioning
C23_PromotesEarliestCreated ==
    DeletedTheDefault =>
        /\ Defaults(db, last.user) # {}
        /\ \A k \in Defaults(db, last.user) :
               \A j \in Owned(db, last.user) : ~LexLess(db[j].CreatedAt, db[k].CreatedAt)

\* the snapshot of the registry a set-default or delete request read on entry
Snapshot(q) == IF q.kind = "delete" THEN q.configs ELSE q.sd

\* the request named an id that none of its owner's records had
ForeignId(q) ==
    /\ q.pc = "done" /\ q.kind \in {"setdefault", "delete"}
    /\ \A i \in OwnedIn(Snapshot(q), q.user) : Snapshot(q)[i].ID # q.id

\* C24: set-default and delete with an id that is not one of the owner's
\* configurations answer not found, and every record of the owner is as it was
C24_UnknownIdNotFound ==
    ForeignId(last) =>
        /\ last.status = 404
        /\ {db[k] : k \in Owned(db, last.user)}
              = {Snapshot(last)[i] : i \in OwnedIn(Snapshot(last), last.user)}

\* the positions in the call log of the calls named op
CallsOf(op) == {i \in 1..Len(calls) : calls[i].op = op}

\* the number of bytes the part uploads before position i carried
RECURSIVE SentBefore(_)
SentBefore(i) ==
    IF i <= 1 THEN 0
    ELSE SentBefore(i - 1)
         + (IF calls[i - 1].op = "UploadPart" THEN calls[i - 1].Size[1] ELSE 0)

\* C25: a multipart upload sends one initiate, then parts numbered 1, 2, 3, ...
\* without gap or repeat, then at most one completion, which lists exactly the
\* accepted parts in ascending order and is sent only when the whole stream
\* has been read; nothing follows a completion or an abort
C25_MultipartCallOrder ==
    TookMultipart =>
        /\ CallsOf("CreateMultipartUpload") = {1}
        /\ CallsOf("PutObject") = {}
        /\ \A i \in CallsOf("UploadPart") :
               /\ calls[i].PartNumber = <<i - 1>>
               /\ \A j \in 2..(i - 1) : calls[j].op = "UploadPart" /\ calls[j].ok
               /\ calls[i].UploadId = up.uploadId
        /\ \A i \in CallsOf("CompleteMultipartUpload") :
               /\ i = Len(calls)
               /\ \A j \in 2..(i - 1) : calls[j].op = "UploadPart" /\ calls[j].ok
               /\ calls[i].Parts = [j \in 1..(i - 2) |->
                                       [ETag |-> <<up.uploadId, j>>, PartNumber |-> j]]
               /\ SentBefore(i) = up.size
               /\ calls[i].UploadId = up.uploadId
        /\ \A i \in CallsOf("AbortMultipartUpload") : i = Len(calls)

\* three parts were accepted one after the other and the session was completed
C25_Witness ==
    /\ TookMultipart
    /\ up.pc = "done" /\ up.status = 200
    /\ Cardinality(CallsOf("UploadPart")) = 3
    /\ calls[Len(calls)].op = "CompleteMultipartUpload"

\* the part uploads that were followed by another part upload
NonLastParts == {i \in CallsOf("UploadPart") : \E j \in CallsOf("UploadPart") : j > i}

\* C26: every part of a multipart upload but the last carries exactly 5 MiB,
\* also when a read returned fewer bytes than the buffer holds before the end
\* of the stream
C26_PartsAreFiveMiB ==
    \A i \in NonLastParts : calls[i].Size = <<5 * 1024 * 1024>>

\* the download has returned after GetObject gave it the object, and nothing
\* broke the copy to the caller
Fetched ==
    /\ rd.kind = "download" /\ rd.pc = "done"
    /\ rd.fullKey # sEmpty /\ rd.err = "" /\ rd.copied

\* C27: a download whose backend response lacks the content type or the content
\* length still answers 200 with the body of the object and, in a service that
\* has an audit service, is audited as a success
C27_DownloadWithoutMetadata ==
    (Fetched /\ (~rd.hasContentType \/ ~rd.hasContentLength)) =>
        /\ rd.status = 200
        /\ rd.body = rd.object
        /\ auditService =>
               \E i \in 1..Len(audit) :
                   audit[i].action = "download_file" /\ audit[i].success

\* an update of a configuration that existed under its owner has returned
UpdateReturned == last.pc = "done" /\ last.kind = "update" /\ last.existing # <<>>

\* C28: when an update returns, with success or with an error, the updated id
\* is still one of the owner's configurations, and after a success it resolves
\* to the record with the fields of the request
C28_UpdateRemovesNothing ==
    UpdateReturned =>
        LET got == getConfigByID(db, last.user, last.id)
        IN  /\ got # <<>>
            /\ last.status = 200 =>
                  /\ got[1].Name = last.updateData[1].Name
                  /\ got[1].AccessKey = last.updateData[1].AccessKey
                  /\ got[1].Region = last.updateData[1].Region
                  /\ got[1].BucketName = last.updateData[1].BucketName
                  /\ got[1].EndpointURL = last.updateData[1].EndpointURL
                  /\ got[1].StorageType = last.updateData[1].StorageType
                  /\ got[1].UseSSL = last.updateData[1].UseSSL

\* C29: the three registry reads return records of the asking owner only:
\* the list, the default, and the lookup by id, for every id a request can carry
C29_ReadsScopedToOwner ==
    \A owner \in Users :
        /\ \A i \in 1..Len(getUserConfigs(db, owner)) :
               getUserConfigs(db, owner)[i].UserID = owner
        /\ getDefaultConfig(db, owner) # <<>> => getDefaultConfig(db, owner)[1].UserID = owner
        /\ \A id \in IdParams(db) :
               getConfigByID(db, owner, id) # <<>>
                   => getConfigByID(db, owner, id)[1].UserID = owner

\* slot r takes a step of setDefaultConfig that may write a record
SetDefaultWrites(r) == reqs[r].pc = "sd_loop" /\ reqs'[r] # reqs[r]

\* the two records differ in the flag and the modification time at most
SameButFlag(old, new) ==
    [new EXCEPT !.IsDefault = old.IsDefault, !.UpdatedAt = old.UpdatedAt] = old

\* C30: a write of setDefaultConfig creates no record and changes nothing but
\* the is_default flag (and the modification time) of a record, whatever
\* updates and deletes committed since setDefaultConfig read the registry
C30_SetDefaultWritesFlagsOnly ==
    [][\A r \in Slots :
          SetDefaultWrites(r) =>
              \A k \in DOMAIN db' : k \in DOMAIN db /\ SameButFlag(db[k], db'[k])]_vars

====
